---- MODULE Spec2Model ----
(***************************************************************************)
(* Model of the DAWN voice assistant: the listening state machine of       *)
(* main() (dawn.c), the text-to-speech worker and its queue                *)
(* (text_to_speech.cpp) and the vision slot written by the bus thread      *)
(* (process_vision_ai, dawn.c).                                            *)
(*                                                                         *)
(* Three threads are modelled: "main" (the state machine), "tts" (the      *)
(* worker started by initialize_text_to_speech) and "bus" (the mosquitto   *)
(* event loop that runs the device callbacks).  Every critical section of  *)
(* the source is one step taken while the mutex is free, except where the  *)
(* source blocks or loops while holding a mutex: there the owner of the    *)
(* mutex is part of the state.                                             *)
(***************************************************************************)
EXTENDS Integers, Sequences, FiniteSets, TLC

\* ---- bounds of the model ------------------------------------------------
\* inputs from outside in one run: final transcripts of the speech
\* recogniser, messages delivered by the bus, SIGINT
MaxInputs == 2
\* audio chunks of one synthesised request (at least one)
MaxChunks == 2
\* heap buffers malloc can hand out for images
NumBufs == 2
\* music threads one run can create
MaxTasks == 3
\* tracks a playlist search can find
MaxTracks == 2
\* frames of one track
MaxFrames == 2
\* music messages the bus delivers in one run
MaxMusicCmds == 2
\* LLM requests of one run
MaxLlmRequests == 2
MaxRouterMsgs == 2
MaxReplies == 2
MaxPieces == 3
MaxWakePieces == 3
MaxWakeInputs == 2
MaxTemplatePieces == 2
MaxReplaces == 2
MaxCount == 2            \* action types, sub-actions, words, devices, aliases
MaxOutputLen == 2        \* length of an ASR output, in characters

\* ---- values fixed by the program ----------------------------------------
DEFAULT_COMMAND_TIMEOUT == 2

TTS_PLAYBACK_IDLE == "IDLE"
TTS_PLAYBACK_PLAY == "PLAY"
TTS_PLAYBACK_PAUSE == "PAUSE"
TTS_PLAYBACK_DISCARD == "DISCARD"

SILENCE == "SILENCE"
WAKEWORD_LISTEN == "WAKEWORD_LISTEN"
COMMAND_RECORDING == "COMMAND_RECORDING"
PROCESS_COMMAND == "PROCESS_COMMAND"
VISION_AI_READY == "VISION_AI_READY"
INVALID_STATE == "INVALID_STATE"

\* The phrase tables of dawn.c, cut down to the members the model speaks.
goodbyeWords == {"goodbye", "bye"}
cancelWords == {"stop", "cancel"}
ignoreWords == {"", "the", "cancel"}
\* command texts that match an entry of the compiled command table
commandTexts == {"lights on"}

\* What can be said on its own or after the wake phrase.
Utterances == {"", "lights on", "cancel", "goodbye", "what time is it"}

\* A final transcript: whether it contains a wake phrase, and the text after
\* the wake phrase and its separating space (the whole text when there is
\* no wake phrase).
Transcripts == [wake : BOOLEAN, rest : Utterances]

NoTranscript == [wake |-> FALSE, rest |-> ""]

\* The final result of the recogniser: empty when nothing more is said.
FinalResults(n) == IF n < MaxInputs THEN Transcripts ELSE {NoTranscript}

\* An empty final result is no input from outside.
Heard(n, t) == IF t = NoTranscript THEN n ELSE n + 1

\* The requests the program enqueues.
Texts == {"greeting", "Goodbye sir.", "Hello sir.", "reply", "apology", "bus text"}

\* inputText when the worker holds no request
NoRequest == "<none>"

NULL == 0
Buffers == 1..NumBufs

\* static pthread_t music_thread = -1
NoThread == -1
\* the callers of musicCallback(): the bus thread and the music threads
BusThread == 0
TaskIds == 1..MaxTasks
MusicCallers == {BusThread} \cup TaskIds
MusicActions == {"play", "stop", "next", "previous"}

\* openai.h
CLOUDAI_URL == "https://api.openai.com"
LOCALAI_URL == "http://127.0.0.1:8080"
CLOUD_LLM == "CLOUD_LLM"
LOCAL_LLM == "LOCAL_LLM"
\* static char llm_url[2048] before any setLLM()
NoUrl == ""
\* no request sent, nothing returned yet
NoValue == "<none>"
ApologyText == "I'm sorry but I'm currently unavailable boss."

\* mosquitto_comms.c: a field the payload does not have
NoField == "<absent>"

\* the exit status of a process that has not ended
Running == -1
\* a payload json_tokener_parse() rejects; also rMsg before the first message
NotJson == [json |-> FALSE, device |-> NoField, action |-> NoField, value |-> NoField]

VARIABLES
  pc,                 \* position of each thread
  ttsArg, ttsRet,     \* text_to_speech(): argument and return position per caller
  \* text_to_speech.cpp
  tts_queue, tts_queue_mutex, tts_queue_signalled, tts_thread_running,
  inputText, audioChunks, chunk_i, tts_stop_processing,
  \* dawn.c: TTS control
  tts_mutex, tts_signalled, tts_playback_state,
  \* dawn.c: main()
  recState, silenceNextState, commandTimeout, input_text, command_text,
  quit, currentState,
  \* dawn.c: vision slot
  vision_ai_image, vision_ai_image_size, vision_ai_ready, heap,
  llm_image, free_ptr,
  \* environment counters
  inputs,
  \* observation variables, never read by the program:
  pending,            \* requests enqueued and not yet played or drained
  goodbye,            \* what became of the "Goodbye sir." request
  bus_out,            \* command published in the current loop iteration
  cancelPending,      \* a cancel phrase set Discard and Discard is still the state
  doubleFree,         \* free() was called on a block that was not allocated
  discardBacklog,     \* requests in the queue when the pending Discard was set
  delivered,          \* the image process_vision_ai() has stored completely and
                      \* getGptResponse() has not been handed yet; 0 for none
  hud,                \* states published on "hud" since the last turn began
  writeFailed         \* a chunk write of the request being played has failed

ttsVars == <<tts_queue, tts_queue_mutex, tts_queue_signalled, tts_thread_running,
             inputText, audioChunks, chunk_i, tts_stop_processing>>
ctlVars == <<tts_mutex, tts_signalled, tts_playback_state>>
mainVars == <<recState, silenceNextState, commandTimeout, input_text, command_text,
              quit, currentState>>
visVars == <<vision_ai_image, vision_ai_image_size, vision_ai_ready, heap,
             llm_image, free_ptr>>
envVars == <<inputs>>
obsVars == <<pending, goodbye, bus_out, cancelPending, doubleFree, discardBacklog>>
visObs == <<delivered>>
sinkObs == <<writeFailed>>
callVars == <<ttsArg, ttsRet>>

\* mosquitto_comms.c and flac_playback.c: music
VARIABLES
  music_thread,       \* the thread id pthread_create() stored last
  music_play,         \* the stop flag of flac_playback.c: 0 stops
  playlist_count, current_track,
  task,               \* position of each playFlacAudio() thread
  written,            \* frames each task has written to its sink
  mcPc, mcAction, mcTarget,   \* musicCallback(): position, action and join
                              \* target per calling thread
  musicCmds,          \* music messages the bus has delivered
  stopPending         \* observation: a "stop" was handled while the task ran

musicVars == <<music_thread, music_play, playlist_count, current_track, task,
               written, mcPc, mcAction, mcTarget, musicCmds, stopPending>>

coreVars == <<pc, callVars, ttsVars, ctlVars, mainVars, visVars, envVars, obsVars,
              visObs, hud, sinkObs>>

\* openai.c: the LLM adapter
VARIABLES
  llm_url,            \* the base URL of the selected LLM
  llmPc,              \* position of main() in getGptResponse() and after it
  llmCaller,          \* the state that called: PROCESS_COMMAND or VISION_AI_READY
  httpUrl,            \* the URL curl_easy_perform() was sent to in this request
  llmRet,             \* what getGptResponse() returned
  llm_tts,            \* texts handed to text_to_speech() by this request, or
                      \* by the switch after it
  llmRequests,        \* requests made so far
  conversation_history,   \* the roles of the messages of the conversation
  llmSel0, probeRes   \* observation: the selection when the request began,
                      \* the result of its reachability probe

llmVars == <<llm_url, llmPc, llmCaller, httpUrl, llmRet, llm_tts, llmRequests,
             conversation_history, llmSel0, probeRes>>

\* mosquitto_comms.c: the command router
VARIABLES
  rMsg,               \* the message on_message() received last
  rCalls,             \* the callbacks parseJsonCommandandExecute() invoked for it
  routerMsgs          \* messages received so far

routerVars == <<rMsg, rCalls, routerMsgs>>

\* dawn.c: the reply of the LLM on its way to text_to_speech()
VARIABLES
  replyPath,          \* the state that received the reply
  textPc,             \* position of main() between getGptResponse() and free()
  response_text,      \* the bytes of the reply, changed in place
  textReplies         \* replies spoken so far

textVars == <<replyPath, textPc, response_text, textReplies>>

\* dawn.c: the wake phrase search on a final transcript
VARIABLES
  wake                \* the transcript, the branch taken and the command text

\* text_to_command_nuevo.c: the command table
VARIABLES
  repl,               \* a template, the values, and what replaceWithValues() made
  table,              \* the configuration, commands[] and how far startup is
  boot,               \* what startup opened, what failed and the exit status
  pub                 \* the command text matched last and what was published

\* dawn.c: the listening states and what they read from the microphone and
\* the recogniser
VARIABLES
  listen              \* the listening state, the counter, the last ASR output
                      \* and what the last iteration did

\* the variables of the functions checked on their own
pureVars == <<wake, repl, table, boot, pub, listen>>

\* the variables of the parts that run beside the listening loop
auxVars == <<musicVars, llmVars, routerVars, textVars, pureVars>>

\* every variable but those of the functions checked on their own
sysVars == <<coreVars, musicVars, llmVars, routerVars, textVars>>

vars == <<coreVars, auxVars>>

Threads == {"main", "tts", "bus"}
Callers == {"main", "bus"}

Goto(t, loc) == pc' = [pc EXCEPT ![t] = loc]

\* The state after initialize_text_to_speech() has started the worker.
Init ==
  /\ pc = [t \in Threads |->
             IF t = "main" THEN "greet" ELSE IF t = "tts" THEN "w_top" ELSE "b_idle"]
  /\ ttsArg = [t \in Callers |-> ""]
  /\ ttsRet = [t \in Callers |-> ""]
  /\ tts_queue = <<>>
  /\ tts_queue_mutex = "none"
  /\ tts_queue_signalled = FALSE
  /\ tts_thread_running = TRUE
  /\ inputText = NoRequest
  /\ audioChunks = 0
  /\ chunk_i = 0
  /\ tts_stop_processing = FALSE
  /\ tts_mutex = "none"
  /\ tts_signalled = FALSE
  /\ tts_playback_state = TTS_PLAYBACK_IDLE
  /\ recState = SILENCE
  /\ silenceNextState = WAKEWORD_LISTEN
  /\ commandTimeout = 0
  /\ input_text = NoTranscript
  /\ command_text = ""
  /\ quit = FALSE
  /\ currentState = INVALID_STATE
  /\ vision_ai_image = NULL
  /\ vision_ai_image_size = 0
  /\ vision_ai_ready = FALSE
  /\ heap = [b \in Buffers |-> [st |-> "free", img |-> 0]]
  /\ llm_image = NULL
  /\ free_ptr = [t \in Callers |-> NULL]
  /\ inputs = 0
  /\ pending = <<>>
  /\ goodbye = "none"
  /\ bus_out = "none"
  /\ cancelPending = FALSE
  /\ doubleFree = FALSE
  /\ discardBacklog = 0
  /\ delivered = 0
  /\ hud = <<>>
  /\ writeFailed = FALSE
  /\ music_thread = NoThread
  /\ music_play = 0
  /\ playlist_count = 0
  /\ current_track = 0
  /\ task = [t \in TaskIds |-> "unborn"]
  /\ written = [t \in TaskIds |-> 0]
  /\ mcPc = [c \in MusicCallers |-> "idle"]
  /\ mcAction = [c \in MusicCallers |-> ""]
  /\ mcTarget = [c \in MusicCallers |-> NoThread]
  /\ musicCmds = 0
  /\ stopPending = [t \in TaskIds |-> FALSE]
  /\ llm_url = NoUrl
  /\ llmPc = "idle"
  /\ llmCaller = NoValue
  /\ httpUrl = NoValue
  /\ llmRet = NoValue
  /\ llm_tts = <<>>
  /\ llmRequests = 0
  /\ conversation_history = <<"system">>
  /\ llmSel0 = NoValue
  /\ probeRes = NoValue
  /\ rMsg = NotJson
  /\ rCalls = <<>>
  /\ routerMsgs = 0
  /\ replyPath = NoValue
  /\ textPc = "idle"
  /\ response_text = <<>>
  /\ textReplies = 0
  /\ wake = [text |-> <<>>, branch |-> NoValue, command_text |-> <<>>, n |-> 0]
  /\ repl = [pieces |-> <<>>, value |-> <<>>, out |-> <<>>, n |-> 0]
  /\ table = [shape |-> [actions |-> 0, subActions |-> 0, actionWords |-> 0,
                         devices |-> 0, aliases |-> 0],
              numActions |-> 0, commands |-> <<>>,
              overflow |-> FALSE, phase |-> "config"]
  /\ boot = [is_initialized |-> 0, suback |-> "none", failed |-> {},
             status |-> Running]
  /\ pub = [text |-> <<>>, index |-> 0, msgs |-> <<>>, matched |-> FALSE]
  /\ listen = [recState |-> SILENCE, silenceNextState |-> WAKEWORD_LISTEN,
               commandTimeout |-> 0, vosk_output |-> <<>>,
               command_text |-> <<>>, quit |-> FALSE, nullUse |-> "none",
               rc |-> 0, rms |-> "below", asked |-> FALSE,
               partial |-> <<>>, fed |-> FALSE, final |-> FALSE]

\* ---- text_to_speech(): enqueue, text_to_speech.cpp:359-373 --------------

\* pthread_cond_signal(&tts_queue_cond): wakes the worker if it is waiting.
SignalQueueCond == tts_queue_signalled' = (tts_queue_signalled \/ pc["tts"] = "w_qwait")

\* pthread_cond_signal(&tts_cond)
SignalTtsCond == tts_signalled' = (tts_signalled \/ pc["tts"] = "w_pausewait")

\* The worker's drain loop pops the queue holding tts_mutex only.
Draining == pc["tts"] = "w_drain"

\* In the Discard branch, from the check to the return of the callback.
InDiscardBranch == pc["tts"] \in {"w_drain", "w_drain_unlock"}

\* A queue that hands out the newest request first.
Push_lifo(q, text) == <<text>> \o q

\* tts_queue.push(inputText)
Push(q, text) == Append(q, text)

\* A push that runs while the worker is popping in its drain loop is an
\* unsynchronised access to the std::queue: the element may also be lost.
PushOutcomes(q, text) ==
  IF Draining THEN {Push(q, text), q} ELSE {Push(q, text)}

\* A caller starts text_to_speech(text) and comes back to `back`.
Call_text_to_speech(t, text, back) ==
  /\ pc' = [pc EXCEPT ![t] = "tts_lock"]
  /\ ttsArg' = [ttsArg EXCEPT ![t] = text]
  /\ ttsRet' = [ttsRet EXCEPT ![t] = back]

\* pthread_mutex_lock(&tts_queue_mutex)
text_to_speech_lock(t) ==
  /\ pc[t] = "tts_lock"
  /\ tts_queue_mutex = "none"
  /\ tts_queue_mutex' = t
  /\ Goto(t, "tts_push")
  /\ UNCHANGED <<callVars, tts_queue, tts_queue_signalled, tts_thread_running,
                 inputText, audioChunks, chunk_i, tts_stop_processing,
                 ctlVars, mainVars, visVars, envVars, obsVars>>
  /\ UNCHANGED visObs
  /\ UNCHANGED hud
  /\ UNCHANGED auxVars
  /\ UNCHANGED sinkObs

\* push, signal, unlock
text_to_speech_push(t) ==
  /\ pc[t] = "tts_push"
  /\ tts_queue_mutex = t
  /\ tts_queue' \in PushOutcomes(tts_queue, ttsArg[t])
  /\ pending' = IF InDiscardBranch THEN pending ELSE Append(pending, ttsArg[t])
  /\ goodbye' = IF ttsArg[t] = "Goodbye sir." THEN "enqueued" ELSE goodbye
  /\ SignalQueueCond
  /\ tts_queue_mutex' = "none"
  /\ Goto(t, ttsRet[t])
  /\ ttsArg' = [ttsArg EXCEPT ![t] = ""]
  /\ ttsRet' = [ttsRet EXCEPT ![t] = ""]
  /\ UNCHANGED <<tts_thread_running, inputText, audioChunks, chunk_i,
                 tts_stop_processing, ctlVars, mainVars, visVars, envVars,
                 bus_out, cancelPending, doubleFree,
                 discardBacklog>>
  /\ UNCHANGED visObs
  /\ UNCHANGED hud
  /\ UNCHANGED auxVars
  /\ UNCHANGED sinkObs

\* ---- tts_thread_function(), text_to_speech.cpp:146-297 ------------------

\* tts_stop_processing.store(false) after textToAudio(); while (!get_quit())
W_Top ==
  /\ pc["tts"] = "w_top"
  /\ tts_stop_processing' = FALSE
  /\ Goto("tts", IF quit THEN "w_done" ELSE "w_queue")
  /\ UNCHANGED <<callVars, tts_queue, tts_queue_mutex, tts_queue_signalled,
                 tts_thread_running, inputText, audioChunks, chunk_i,
                 ctlVars, mainVars, visVars, envVars, obsVars>>
  /\ UNCHANGED visObs
  /\ UNCHANGED hud
  /\ UNCHANGED auxVars
  /\ UNCHANGED sinkObs

\* front() and pop()
Dequeue(q) == [text |-> Head(q), rest |-> Tail(q)]

\* What the worker does with the queue mutex held: wait, exit or take one.
QueueBranch(q, running) ==
  IF q = <<>> /\ running THEN "wait"
  ELSE IF ~running /\ q = <<>> THEN "exit"
  ELSE "take"

\* lock; the wait loop, the exit test and the dequeue; unlock.  The request
\* is then synthesised into audioBuffer (textToAudio) and the callback
\* starts: lock tts_mutex, tts_playback_state = PLAY, unlock.
W_Queue ==
  /\ pc["tts"] = "w_queue"
  /\ tts_queue_mutex = "none"
  /\ LET br == QueueBranch(tts_queue, tts_thread_running) IN
       \/ /\ br = "wait"
          /\ Goto("tts", "w_qwait")
          /\ tts_queue_signalled' = FALSE
          /\ UNCHANGED <<tts_queue, inputText, audioChunks, tts_playback_state,
                         writeFailed>>
       \/ /\ br = "exit"
          /\ Goto("tts", "w_done")
          /\ UNCHANGED <<tts_queue, inputText, audioChunks, tts_queue_signalled,
                         tts_playback_state, writeFailed>>
       \/ /\ br = "take"
          /\ tts_mutex = "none"
          /\ inputText' = Dequeue(tts_queue).text
          /\ tts_queue' = Dequeue(tts_queue).rest
          /\ \E n \in 1..MaxChunks : audioChunks' = n
          /\ tts_playback_state' = TTS_PLAYBACK_PLAY
          /\ writeFailed' = FALSE
          /\ Goto("tts", "w_chk")
          /\ UNCHANGED tts_queue_signalled
  /\ UNCHANGED <<callVars, tts_queue_mutex, tts_thread_running, chunk_i,
                 tts_stop_processing, tts_mutex, tts_signalled, mainVars,
                 visVars, envVars, obsVars>>
  /\ UNCHANGED visObs
  /\ UNCHANGED hud
  /\ UNCHANGED auxVars

\* pthread_cond_wait(&tts_queue_cond, ...) was signalled: test again
W_QueueWake ==
  /\ pc["tts"] = "w_qwait"
  /\ tts_queue_signalled
  /\ tts_queue_signalled' = FALSE
  /\ Goto("tts", "w_queue")
  /\ UNCHANGED <<callVars, tts_queue, tts_queue_mutex, tts_thread_running,
                 inputText, audioChunks, chunk_i, tts_stop_processing, ctlVars,
                 mainVars, visVars, envVars, obsVars>>
  /\ UNCHANGED visObs
  /\ UNCHANGED hud
  /\ UNCHANGED auxVars
  /\ UNCHANGED sinkObs

\* Where the chunk loop goes next: the pre-chunk check or the end.
LoopPc(i, total) == IF i < total THEN "w_chk" ELSE "w_cb_idle"

\* A pre-chunk check that does not wait while the state is PAUSE.
ChunkCheckBranch_nopause(state) ==
  IF state = TTS_PLAYBACK_DISCARD THEN "discard" ELSE "write"

\* The branch the pre-chunk check takes on the state it reads.
ChunkCheckBranch(state) ==
  IF state = TTS_PLAYBACK_PAUSE THEN "wait"
  ELSE IF state = TTS_PLAYBACK_DISCARD THEN "discard"
  ELSE "write"

\* What pa_simple_write() can return: 0, or a negative value when the sink
\* fails, which is an event from outside.
WriteResults(n) == IF n < MaxInputs THEN {0, -1} ELSE {0}

\* Where the chunk loop goes after pa_simple_write() returned rc: on rc < 0 the
\* sink is closed and opened again, and in both cases the for loop goes on to
\* its next chunk.
AfterWrite(rc, i, total) == LoopPc(i + 1, total)

\* The pre-chunk check: lock tts_mutex, read the state, branch; on PLAY or
\* IDLE unlock and pa_simple_write() the chunk.  The reopening of the sink
\* after a failed write is taken to succeed.
W_ChunkCheck ==
  /\ pc["tts"] = "w_chk"
  /\ tts_mutex = "none"
  /\ LET br == ChunkCheckBranch(tts_playback_state) IN
       \/ /\ br = "wait"
          /\ tts_signalled' = FALSE
          /\ Goto("tts", "w_pausewait")
          /\ UNCHANGED <<tts_mutex, tts_playback_state, audioChunks, chunk_i,
                         pending, cancelPending, discardBacklog, inputs,
                         writeFailed>>
       \/ /\ br = "discard"
          /\ tts_mutex' = "tts"
          /\ tts_playback_state' = TTS_PLAYBACK_IDLE
          /\ audioChunks' = 0
          /\ chunk_i' = 0
          /\ pending' = <<>>
          /\ cancelPending' = FALSE
          /\ discardBacklog' = 0
          /\ Goto("tts", "w_drain")
          /\ UNCHANGED <<tts_signalled, inputs, writeFailed>>
       \/ /\ br = "write"
          /\ \E rc \in WriteResults(inputs) :
               /\ inputs' = IF rc < 0 THEN inputs + 1 ELSE inputs
               /\ writeFailed' = (writeFailed \/ rc < 0)
               /\ Goto("tts", AfterWrite(rc, chunk_i, audioChunks))
          /\ chunk_i' = chunk_i + 1
          /\ UNCHANGED <<tts_mutex, tts_playback_state, tts_signalled,
                         audioChunks, pending, cancelPending, discardBacklog>>
  /\ UNCHANGED <<callVars, tts_queue, tts_queue_mutex, tts_queue_signalled,
                 tts_thread_running, inputText, tts_stop_processing, mainVars,
                 visVars, goodbye, bus_out, doubleFree>>
  /\ UNCHANGED visObs
  /\ UNCHANGED hud
  /\ UNCHANGED auxVars

\* pthread_cond_wait(&tts_cond, &tts_mutex) was signalled: test again
W_PauseWake ==
  /\ pc["tts"] = "w_pausewait"
  /\ tts_signalled
  /\ tts_signalled' = FALSE
  /\ Goto("tts", "w_chk")
  /\ UNCHANGED <<callVars, ttsVars, tts_mutex, tts_playback_state, mainVars,
                 visVars, envVars, obsVars>>
  /\ UNCHANGED visObs
  /\ UNCHANGED hud
  /\ UNCHANGED auxVars
  /\ UNCHANGED sinkObs

\* while (!tts_queue.empty()) tts_queue.pop();   -- holding tts_mutex only
W_Drain ==
  /\ pc["tts"] = "w_drain"
  /\ IF tts_queue # <<>>
       THEN /\ tts_queue' = Tail(tts_queue)
            /\ UNCHANGED pc
       ELSE /\ Goto("tts", "w_drain_unlock")
            /\ UNCHANGED tts_queue
  /\ UNCHANGED <<callVars, tts_queue_mutex, tts_queue_signalled, tts_thread_running,
                 inputText, audioChunks, chunk_i, tts_stop_processing, ctlVars,
                 mainVars, visVars, envVars, obsVars>>
  /\ UNCHANGED visObs
  /\ UNCHANGED hud
  /\ UNCHANGED auxVars
  /\ UNCHANGED sinkObs

\* pthread_mutex_unlock(&tts_mutex); tts_stop_processing.store(true); return
W_DrainUnlock ==
  /\ pc["tts"] = "w_drain_unlock"
  /\ tts_mutex = "tts"
  /\ tts_mutex' = "none"
  /\ tts_stop_processing' = TRUE
  /\ inputText' = NoRequest
  /\ pending' = tts_queue
  /\ Goto("tts", "w_top")
  /\ UNCHANGED <<callVars, tts_queue, tts_queue_mutex, tts_queue_signalled,
                 tts_thread_running, audioChunks, chunk_i, tts_signalled,
                 tts_playback_state, mainVars, visVars, envVars, goodbye,
                 bus_out, cancelPending, doubleFree,
                 discardBacklog>>
  /\ UNCHANGED visObs
  /\ UNCHANGED hud
  /\ UNCHANGED auxVars
  /\ UNCHANGED sinkObs

\* after the last chunk: audioBuffer.clear(); lock; state = IDLE; unlock
W_CallbackIdle ==
  /\ pc["tts"] = "w_cb_idle"
  /\ tts_mutex = "none"
  /\ tts_playback_state' = TTS_PLAYBACK_IDLE
  /\ audioChunks' = 0
  /\ chunk_i' = 0
  /\ inputText' = NoRequest
  /\ pending' = IF pending # <<>> THEN Tail(pending) ELSE pending
  /\ goodbye' = IF inputText = "Goodbye sir." THEN "played" ELSE goodbye
  /\ cancelPending' = FALSE
  /\ discardBacklog' = 0
  /\ Goto("tts", "w_top")
  /\ UNCHANGED <<callVars, tts_queue, tts_queue_mutex, tts_queue_signalled,
                 tts_thread_running, tts_stop_processing, tts_mutex,
                 tts_signalled, mainVars, visVars, envVars, bus_out,
                 doubleFree>>
  /\ UNCHANGED visObs
  /\ UNCHANGED hud
  /\ UNCHANGED auxVars
  /\ UNCHANGED sinkObs

Worker ==
  \/ W_Top \/ W_Queue \/ W_QueueWake \/ W_ChunkCheck \/ W_PauseWake
  \/ W_Drain \/ W_DrainUnlock \/ W_CallbackIdle

\* ---- main(), dawn.c:1171-1605 -------------------------------------------

\* strcmp(input_text, goodbyeWords[i]) == 0 on the whole transcript
IsGoodbye(t) == ~t.wake /\ t.rest \in goodbyeWords

\* strcmp(input_text, cancelWords[i]) == 0 on the whole transcript
IsCancel(t) == ~t.wake /\ t.rest \in cancelWords

\* The whole transcript as COMMAND_RECORDING hands it on.  A transcript that
\* still carries the wake phrase equals no table entry and no phrase.
FullText(t) == IF t.wake THEN "hey friday ..." ELSE t.rest

\* if (state == PAUSE) { state = DISCARD; pthread_cond_signal(&tts_cond); }
DiscardIfPaused ==
  IF tts_playback_state = TTS_PLAYBACK_PAUSE
    THEN /\ tts_playback_state' = TTS_PLAYBACK_DISCARD
         /\ SignalTtsCond
         /\ discardBacklog' = Len(tts_queue)
    ELSE UNCHANGED <<tts_playback_state, tts_signalled, discardBacklog>>

\* What the observation variables other than discardBacklog do in a step
\* that only touches the playback state.
ObsKept == UNCHANGED <<pending, goodbye, bus_out, cancelPending, doubleFree>>

\* A resume without its test of the state.
ResumeIfPaused_Always ==
  /\ tts_playback_state' = TTS_PLAYBACK_PLAY
  /\ SignalTtsCond

\* A resume that tests and writes the states the other way round.
ResumeIfPaused_Pauses ==
  IF tts_playback_state = TTS_PLAYBACK_PLAY
    THEN /\ tts_playback_state' = TTS_PLAYBACK_PAUSE
         /\ SignalTtsCond
    ELSE UNCHANGED <<tts_playback_state, tts_signalled>>

\* if (state == PAUSE) { state = PLAY; pthread_cond_signal(&tts_cond); }
ResumeIfPaused ==
  IF tts_playback_state = TTS_PLAYBACK_PAUSE
    THEN /\ tts_playback_state' = TTS_PLAYBACK_PLAY
         /\ SignalTtsCond
    ELSE UNCHANGED <<tts_playback_state, tts_signalled>>

\* A pause without its test of the state.
PauseIfPlaying_Always ==
  tts_playback_state' = TTS_PLAYBACK_PAUSE

\* if (state == PLAY) state = PAUSE;
PauseIfPlaying ==
  IF tts_playback_state = TTS_PLAYBACK_PLAY
    THEN tts_playback_state' = TTS_PLAYBACK_PAUSE
    ELSE UNCHANGED tts_playback_state

\* The position of the case block of a listening state.
StatePc(s) ==
  IF s = SILENCE THEN "sil"
  ELSE IF s = WAKEWORD_LISTEN THEN "ww"
  ELSE IF s = COMMAND_RECORDING THEN "cr"
  ELSE IF s = PROCESS_COMMAND THEN "pc_match"
  ELSE "vis"

\* A publish that leaves out the PROCESS_COMMAND state.
publish_ai_state_quiet(cur, newState, ok) ==
  IF newState = cur \/ newState \in {INVALID_STATE, PROCESS_COMMAND}
    THEN [rc |-> 0, sent |-> FALSE, cur |-> cur]
  ELSE IF ~ok
    THEN [rc |-> 1, sent |-> FALSE, cur |-> cur]
  ELSE [rc |-> 0, sent |-> TRUE, cur |-> newState]

\* A publish that does not compare with the last published state.
publish_ai_state_always(cur, newState, ok) ==
  IF ~ok THEN [rc |-> 1, sent |-> FALSE, cur |-> cur]
         ELSE [rc |-> 0, sent |-> TRUE, cur |-> newState]

\* publish_ai_state(newState) with currentState = cur; ok: the message was
\* built and mosquitto_publish() returned MOSQ_ERR_SUCCESS.
publish_ai_state(cur, newState, ok) ==
  IF newState = cur \/ newState = INVALID_STATE
    THEN [rc |-> 0, sent |-> FALSE, cur |-> cur]
  ELSE IF ~ok
    THEN [rc |-> 1, sent |-> FALSE, cur |-> cur]
  ELSE [rc |-> 0, sent |-> TRUE, cur |-> newState]

\* Whether mosquitto_publish() can succeed, and fail: a failure is an event
\* from outside.
PublishResults(n) == IF n < MaxInputs THEN BOOLEAN ELSE {TRUE}

\* The record of hud messages: a SILENCE or VISION_AI_READY message starts the
\* record of the next turn.
HudAfter(h, s) ==
  IF s \in {SILENCE, VISION_AI_READY} THEN <<s>> ELSE Append(h, s)

\* The top of the loop, reached with quit flag q, listening state rs and n
\* inputs used: while (!quit) { if (vision_ai_ready) recState =
\* VISION_AI_READY; publish_ai_state(recState); switch (recState)
\* A publish that fails is an input from outside.
LoopTop(q, rs, n) ==
  IF q
    THEN /\ Goto("main", "cleanup_lock")
         /\ recState' = rs
         /\ inputs' = n
         /\ UNCHANGED <<currentState, bus_out, hud>>
    ELSE LET s == IF vision_ai_ready THEN VISION_AI_READY ELSE rs IN
         \E ok \in PublishResults(n) :
           LET r == publish_ai_state(currentState, s, ok) IN
           /\ ~ok => r.rc = 1
           /\ inputs' = IF ok THEN n ELSE n + 1
           /\ recState' = s
           /\ currentState' = r.cur
           /\ hud' = IF r.sent THEN HudAfter(hud, s) ELSE hud
           /\ bus_out' = "none"
           /\ Goto("main", StatePc(s))

\* text_to_speech(timeOfDayGreeting()) before the loop
M_Greet ==
  /\ pc["main"] = "greet"
  /\ Call_text_to_speech("main", "greeting", "loop")
  /\ UNCHANGED <<ttsVars, ctlVars, mainVars, visVars, envVars, obsVars>>
  /\ UNCHANGED visObs
  /\ UNCHANGED hud
  /\ UNCHANGED auxVars
  /\ UNCHANGED sinkObs

\* the top of the loop after a step that wrote shared data
M_Loop ==
  /\ pc["main"] = "loop"
  /\ LoopTop(quit, recState, inputs)
  /\ UNCHANGED <<callVars, ttsVars, ctlVars, silenceNextState, commandTimeout,
                 input_text, command_text, quit, visVars, pending,
                 goodbye, cancelPending, doubleFree,
                 discardBacklog>>
  /\ UNCHANGED visObs
  /\ UNCHANGED auxVars
  /\ UNCHANGED sinkObs

\* case SILENCE: resume a paused TTS; capture one chunk; rms >= threshold
\* moves on
M_Silence ==
  /\ pc["main"] = "sil"
  /\ tts_mutex = "none"
  /\ ResumeIfPaused
  /\ \E talking \in BOOLEAN :
       /\ talking => inputs < MaxInputs
       /\ LoopTop(quit, IF talking THEN silenceNextState ELSE recState, inputs)
  /\ UNCHANGED <<callVars, ttsVars, tts_mutex, silenceNextState, commandTimeout,
                 input_text, command_text, quit, visVars, pending,
                 goodbye, cancelPending, doubleFree,
                 discardBacklog>>
  /\ UNCHANGED visObs
  /\ UNCHANGED auxVars
  /\ UNCHANGED sinkObs

\* The timeout rule shared by WAKEWORD_LISTEN and COMMAND_RECORDING.
\* silent: rms below the threshold or no ASR progress.  Yields the new
\* counter and whether the final result is requested.
TimeoutStep(ct, silent) ==
  LET n == IF silent THEN ct + 1 ELSE 0 IN
  IF n >= DEFAULT_COMMAND_TIMEOUT THEN [ct |-> 0, final |-> TRUE]
                                   ELSE [ct |-> n, final |-> FALSE]

\* Where WAKEWORD_LISTEN goes with a final transcript.  The cancel block
\* only reads the state unless the transcript is a cancel phrase.
FinalPc(t) ==
  IF IsGoodbye(t) THEN "ww_goodbye"
  ELSE IF IsCancel(t) THEN "ww_cancel"
  ELSE "ww_wake"

\* case WAKEWORD_LISTEN: pause a playing TTS; capture, timeout, final
\* transcript
M_WakeListen ==
  /\ pc["main"] = "ww"
  /\ tts_mutex = "none"
  /\ PauseIfPlaying
  /\ \E silent \in BOOLEAN :
       LET r == TimeoutStep(commandTimeout, silent) IN
       /\ commandTimeout' = r.ct
       /\ IF r.final
            THEN /\ \E t \in FinalResults(inputs) :
                      /\ input_text' = t
                      /\ inputs' = Heard(inputs, t)
                      /\ Goto("main", FinalPc(t))
                 /\ UNCHANGED <<recState, currentState, bus_out, hud>>
            ELSE /\ LoopTop(quit, recState, inputs)
                 /\ UNCHANGED input_text
  /\ UNCHANGED <<callVars, ttsVars, tts_mutex, tts_signalled, silenceNextState,
                 command_text,
                 quit, visVars, pending, goodbye, cancelPending,
                 doubleFree,
                 discardBacklog>>
  /\ UNCHANGED visObs
  /\ UNCHANGED auxVars
  /\ UNCHANGED sinkObs

\* goodbye phrase: Discard a paused TTS, then text_to_speech("Goodbye sir.")
M_WakeGoodbye ==
  /\ pc["main"] = "ww_goodbye"
  /\ tts_mutex = "none"
  /\ DiscardIfPaused
  /\ Call_text_to_speech("main", "Goodbye sir.", "ww_quit")
  /\ UNCHANGED <<ttsVars, tts_mutex, mainVars, visVars, envVars>>
  /\ ObsKept
  /\ UNCHANGED visObs
  /\ UNCHANGED hud
  /\ UNCHANGED auxVars
  /\ UNCHANGED sinkObs

\* quit = 1 after the goodbye request
M_WakeQuit ==
  /\ pc["main"] = "ww_quit"
  /\ quit' = TRUE
  /\ Goto("main", "ww_wake")
  /\ UNCHANGED <<callVars, ttsVars, ctlVars, recState, silenceNextState,
                 commandTimeout, input_text, command_text, currentState,
                 visVars, envVars, obsVars>>
  /\ UNCHANGED visObs
  /\ UNCHANGED hud
  /\ UNCHANGED auxVars
  /\ UNCHANGED sinkObs

\* cancel phrase: if the TTS is paused, Discard it and go back to SILENCE
M_WakeCancel ==
  /\ pc["main"] = "ww_cancel"
  /\ tts_mutex = "none"
  /\ IF tts_playback_state = TTS_PLAYBACK_PAUSE /\ IsCancel(input_text)
       THEN /\ tts_playback_state' = TTS_PLAYBACK_DISCARD
            /\ SignalTtsCond
            /\ cancelPending' = TRUE
            /\ discardBacklog' = Len(tts_queue)
            /\ silenceNextState' = WAKEWORD_LISTEN
            /\ recState' = SILENCE
       ELSE UNCHANGED <<tts_playback_state, tts_signalled, cancelPending,
                        discardBacklog, silenceNextState, recState>>
  /\ Goto("main", "ww_wake")
  /\ UNCHANGED <<callVars, ttsVars, tts_mutex, commandTimeout, input_text,
                 command_text, quit, currentState, visVars, envVars, pending,
                 goodbye, bus_out, doubleFree>>
  /\ UNCHANGED visObs
  /\ UNCHANGED hud
  /\ UNCHANGED auxVars
  /\ UNCHANGED sinkObs

\* the wake phrase scan and what follows it; the transcript is not read
\* again after this block
M_WakeWord ==
  /\ pc["main"] = "ww_wake"
  /\ tts_mutex = "none"
  /\ IF input_text.wake
       THEN /\ DiscardIfPaused
            /\ IF input_text.rest = ""
                 THEN /\ Call_text_to_speech("main", "Hello sir.", "ww_hello")
                      /\ UNCHANGED <<command_text, recState, silenceNextState,
                                     currentState, bus_out, hud, inputs>>
                 ELSE /\ command_text' = input_text.rest
                      /\ LoopTop(quit, PROCESS_COMMAND, inputs)
                      /\ UNCHANGED <<callVars, silenceNextState>>
       ELSE /\ ResumeIfPaused
            /\ silenceNextState' = WAKEWORD_LISTEN
            /\ LoopTop(quit, SILENCE, inputs)
            /\ UNCHANGED <<callVars, command_text, discardBacklog>>
  /\ input_text' = NoTranscript
  /\ UNCHANGED <<ttsVars, tts_mutex, commandTimeout, quit, visVars,
                 pending, goodbye, cancelPending, doubleFree>>
  /\ UNCHANGED visObs
  /\ UNCHANGED auxVars
  /\ UNCHANGED sinkObs

\* after "Hello sir.": wait for the command
M_WakeHello ==
  /\ pc["main"] = "ww_hello"
  /\ commandTimeout' = 0
  /\ silenceNextState' = COMMAND_RECORDING
  /\ LoopTop(quit, SILENCE, inputs)
  /\ UNCHANGED <<callVars, ttsVars, ctlVars, input_text, command_text, quit,
                 visVars, pending, goodbye, cancelPending, doubleFree,
                 discardBacklog>>
  /\ UNCHANGED visObs
  /\ UNCHANGED auxVars
  /\ UNCHANGED sinkObs

\* case COMMAND_RECORDING: Discard a paused TTS; capture, timeout, final
\* transcript
M_Record ==
  /\ pc["main"] = "cr"
  /\ tts_mutex = "none"
  /\ DiscardIfPaused
  /\ \E silent \in BOOLEAN :
       LET r == TimeoutStep(commandTimeout, silent) IN
       /\ commandTimeout' = r.ct
       /\ IF r.final
            THEN \E t \in FinalResults(inputs) :
                   /\ command_text' = FullText(t)
                   /\ LoopTop(quit, PROCESS_COMMAND, Heard(inputs, t))
            ELSE /\ LoopTop(quit, recState, inputs)
                 /\ UNCHANGED command_text
  /\ UNCHANGED <<callVars, ttsVars, tts_mutex, silenceNextState, input_text,
                 quit, visVars, pending, goodbye, cancelPending, doubleFree>>
  /\ UNCHANGED visObs
  /\ UNCHANGED auxVars
  /\ UNCHANGED sinkObs

\* case PROCESS_COMMAND: the command table scan (publish on a match), then
\* the ignore list
M_ProcessMatch ==
  /\ pc["main"] = "pc_match"
  /\ IF command_text \in commandTexts
       THEN /\ tts_mutex = "none"
            /\ DiscardIfPaused
            /\ bus_out' = command_text
            /\ Goto("main", "pc_end")
       ELSE IF command_text \in ignoreWords
         THEN /\ tts_mutex = "none"
              /\ ResumeIfPaused
              /\ Goto("main", "pc_end")
              /\ UNCHANGED <<bus_out, discardBacklog>>
         ELSE /\ Goto("main", "pc_llm")
              /\ UNCHANGED <<tts_playback_state, tts_signalled, bus_out,
                             discardBacklog>>
  /\ UNCHANGED <<callVars, ttsVars, tts_mutex, mainVars, visVars, envVars,
                 pending, goodbye, cancelPending, doubleFree>>
  /\ UNCHANGED visObs
  /\ UNCHANGED hud
  /\ UNCHANGED auxVars
  /\ UNCHANGED sinkObs

\* getGptResponse() returned; Discard a paused TTS; speak reply or apology
M_ProcessLlm ==
  /\ pc["main"] = "pc_llm"
  /\ tts_mutex = "none"
  /\ DiscardIfPaused
  /\ \E ok \in BOOLEAN :
       Call_text_to_speech("main", IF ok THEN "reply" ELSE "apology", "pc_end")
  /\ UNCHANGED <<ttsVars, tts_mutex, mainVars, visVars, envVars>>
  /\ ObsKept
  /\ UNCHANGED visObs
  /\ UNCHANGED hud
  /\ UNCHANGED auxVars
  /\ UNCHANGED sinkObs

\* the goodbye check left out
QuitAfter_Never(q, text) ==
  q

\* quit after the loop over goodbyeWords that compares them with the text
QuitAfter(q, text) ==
  q \/ text \in goodbyeWords

\* goodbye check on the command text, back to SILENCE
M_ProcessEnd ==
  /\ pc["main"] = "pc_end"
  /\ quit' = QuitAfter(quit, command_text)
  /\ command_text' = ""
  /\ silenceNextState' = WAKEWORD_LISTEN
  /\ LoopTop(QuitAfter(quit, command_text), SILENCE, inputs)
  /\ UNCHANGED <<callVars, ttsVars, ctlVars, commandTimeout, input_text,
                 visVars, pending, goodbye, cancelPending, doubleFree,
                 discardBacklog>>
  /\ UNCHANGED visObs
  /\ UNCHANGED auxVars
  /\ UNCHANGED sinkObs

\* ---- vision slot: heap buffers -------------------------------------------

\* free(p): freeing a buffer that is already free is a double free.
FreeBuffer(p) ==
  /\ heap' = [heap EXCEPT ![p] = [st |-> "free", img |-> 0]]
  /\ doubleFree' = (doubleFree \/ heap[p].st # "alloc")

\* The image a pointer leads to: none through NULL or into a freed block.
ImageAt(p) == IF p = NULL THEN 0 ELSE heap[p].img

\* case VISION_AI_READY: resume a paused TTS; then
\* getGptResponse(history, prompt, vision_ai_image, vision_ai_image_size) is
\* entered: the request is built from the buffer the slot points to now.
M_VisionLlmCall ==
  /\ pc["main"] = "vis"
  /\ tts_mutex = "none"
  /\ ResumeIfPaused
  /\ llm_image' = vision_ai_image
  /\ delivered' = IF ImageAt(vision_ai_image) = delivered THEN 0 ELSE delivered
  /\ Goto("main", "vis_read")
  /\ UNCHANGED <<callVars, ttsVars, tts_mutex, mainVars, vision_ai_image,
                 vision_ai_image_size, vision_ai_ready, heap, free_ptr,
                 envVars, obsVars>>
  /\ UNCHANGED hud
  /\ UNCHANGED auxVars
  /\ UNCHANGED sinkObs

\* getGptResponse() returned: speak the reply or the apology
M_VisionLlmReturn ==
  /\ pc["main"] = "vis_read"
  /\ llm_image' = NULL
  /\ \E ok \in BOOLEAN :
       Call_text_to_speech("main", IF ok THEN "reply" ELSE "apology", "vis_clean")
  /\ UNCHANGED <<ttsVars, ctlVars, mainVars, vision_ai_image,
                 vision_ai_image_size, vision_ai_ready, heap, free_ptr,
                 envVars, obsVars>>
  /\ UNCHANGED visObs
  /\ UNCHANGED hud
  /\ UNCHANGED auxVars
  /\ UNCHANGED sinkObs

\* if (vision_ai_image != NULL)
M_VisionCleanCheck ==
  /\ pc["main"] = "vis_clean"
  /\ IF vision_ai_image # NULL
       THEN /\ free_ptr' = [free_ptr EXCEPT !["main"] = vision_ai_image]
            /\ Goto("main", "vis_free")
       ELSE /\ Goto("main", "vis_reset")
            /\ UNCHANGED free_ptr
  /\ UNCHANGED <<callVars, ttsVars, ctlVars, mainVars, vision_ai_image,
                 vision_ai_image_size, vision_ai_ready, heap, llm_image,
                 envVars, obsVars>>
  /\ UNCHANGED visObs
  /\ UNCHANGED hud
  /\ UNCHANGED auxVars
  /\ UNCHANGED sinkObs

\* free(vision_ai_image)
M_VisionFree ==
  /\ pc["main"] = "vis_free"
  /\ FreeBuffer(free_ptr["main"])
  /\ Goto("main", "vis_null")
  /\ UNCHANGED <<callVars, ttsVars, ctlVars, mainVars, vision_ai_image,
                 vision_ai_image_size, vision_ai_ready, llm_image, free_ptr,
                 envVars, pending, goodbye, bus_out, cancelPending,
                 discardBacklog>>
  /\ UNCHANGED visObs
  /\ UNCHANGED hud
  /\ UNCHANGED auxVars
  /\ UNCHANGED sinkObs

\* vision_ai_image = NULL
M_VisionNull ==
  /\ pc["main"] = "vis_null"
  /\ vision_ai_image' = NULL
  /\ free_ptr' = [free_ptr EXCEPT !["main"] = NULL]
  /\ Goto("main", "vis_reset")
  /\ UNCHANGED <<callVars, ttsVars, ctlVars, mainVars, vision_ai_image_size,
                 vision_ai_ready, heap, llm_image, envVars, obsVars>>
  /\ UNCHANGED visObs
  /\ UNCHANGED hud
  /\ UNCHANGED auxVars
  /\ UNCHANGED sinkObs

\* vision_ai_image_size = 0; vision_ai_ready = 0; back to SILENCE
M_VisionReset ==
  /\ pc["main"] = "vis_reset"
  /\ vision_ai_image_size' = 0
  /\ vision_ai_ready' = FALSE
  /\ silenceNextState' = WAKEWORD_LISTEN
  /\ recState' = SILENCE
  /\ Goto("main", "loop")
  /\ UNCHANGED <<callVars, ttsVars, ctlVars, commandTimeout, input_text,
                 command_text, quit, currentState, vision_ai_image, heap,
                 llm_image, free_ptr, envVars, obsVars>>
  /\ UNCHANGED visObs
  /\ UNCHANGED hud
  /\ UNCHANGED auxVars
  /\ UNCHANGED sinkObs

\* ---- cleanup_text_to_speech(), text_to_speech.cpp:381-417 ---------------

M_CleanupLock ==
  /\ pc["main"] = "cleanup_lock"
  /\ tts_queue_mutex = "none"
  /\ tts_queue_mutex' = "main"
  /\ Goto("main", "cleanup_signal")
  /\ UNCHANGED <<callVars, tts_queue, tts_queue_signalled, tts_thread_running,
                 inputText, audioChunks, chunk_i, tts_stop_processing,
                 ctlVars, mainVars, visVars, envVars, obsVars>>
  /\ UNCHANGED visObs
  /\ UNCHANGED hud
  /\ UNCHANGED auxVars
  /\ UNCHANGED sinkObs

\* tts_thread_running = false; signal; unlock
M_CleanupSignal ==
  /\ pc["main"] = "cleanup_signal"
  /\ tts_queue_mutex = "main"
  /\ tts_thread_running' = FALSE
  /\ SignalQueueCond
  /\ tts_queue_mutex' = "none"
  /\ Goto("main", "cleanup_join")
  /\ UNCHANGED <<callVars, tts_queue, inputText, audioChunks, chunk_i,
                 tts_stop_processing, ctlVars, mainVars, visVars, envVars,
                 obsVars>>
  /\ UNCHANGED visObs
  /\ UNCHANGED hud
  /\ UNCHANGED auxVars
  /\ UNCHANGED sinkObs

\* pthread_join(tts_thread) returns once the worker has ended; the rest of
\* the cleanup (sink close, bus disconnect, history free) follows.
M_CleanupJoin ==
  /\ pc["main"] = "cleanup_join"
  /\ pc["tts"] = "w_done"
  /\ Goto("main", "done")
  /\ UNCHANGED <<callVars, ttsVars, ctlVars, mainVars, visVars, envVars, obsVars>>
  /\ UNCHANGED visObs
  /\ UNCHANGED hud
  /\ UNCHANGED auxVars
  /\ UNCHANGED sinkObs

\* signal_handler(SIGINT), dawn.c:357-361; installed after the greeting
HandlerInstalled ==
  ~(pc["main"] = "greet"
    \/ (pc["main"] \in {"tts_lock", "tts_push"} /\ ttsArg["main"] = "greeting"))

signal_handler ==
  /\ HandlerInstalled
  /\ pc["main"] # "done"
  /\ ~quit
  /\ inputs < MaxInputs
  /\ inputs' = inputs + 1
  /\ quit' = TRUE
  /\ UNCHANGED <<pc, callVars, ttsVars, ctlVars, recState, silenceNextState,
                 commandTimeout, input_text, command_text, currentState,
                 visVars, obsVars>>
  /\ UNCHANGED visObs
  /\ UNCHANGED hud
  /\ UNCHANGED auxVars
  /\ UNCHANGED sinkObs

\* ---- the bus thread: on_message() callbacks ------------------------------

\* textToSpeechCallback(): text_to_speech(value)
B_TextToSpeech ==
  /\ pc["bus"] = "b_idle"
  /\ pc["main"] # "done"
  /\ inputs < MaxInputs
  /\ inputs' = inputs + 1
  /\ Call_text_to_speech("bus", "bus text", "b_idle")
  /\ UNCHANGED <<ttsVars, ctlVars, mainVars, visVars, obsVars>>
  /\ UNCHANGED visObs
  /\ UNCHANGED hud
  /\ UNCHANGED auxVars
  /\ UNCHANGED sinkObs

\* viewingCallback(): the file is read and encoded, process_vision_ai() starts
\* with if (vision_ai_image != NULL)
B_Viewing ==
  /\ pc["bus"] = "b_idle"
  /\ pc["main"] # "done"
  /\ inputs < MaxInputs
  /\ inputs' = inputs + 1
  /\ IF vision_ai_image # NULL
       THEN /\ free_ptr' = [free_ptr EXCEPT !["bus"] = vision_ai_image]
            /\ Goto("bus", "pv_free")
       ELSE /\ Goto("bus", "pv_malloc")
            /\ UNCHANGED free_ptr
  /\ UNCHANGED <<callVars, ttsVars, ctlVars, mainVars, vision_ai_image,
                 vision_ai_image_size, vision_ai_ready, heap, llm_image,
                 obsVars>>
  /\ delivered' = 0
  /\ UNCHANGED hud
  /\ UNCHANGED auxVars
  /\ UNCHANGED sinkObs

\* free(vision_ai_image)
B_VisionFree ==
  /\ pc["bus"] = "pv_free"
  /\ FreeBuffer(free_ptr["bus"])
  /\ Goto("bus", "pv_null")
  /\ UNCHANGED <<callVars, ttsVars, ctlVars, mainVars, vision_ai_image,
                 vision_ai_image_size, vision_ai_ready, llm_image, free_ptr,
                 envVars, pending, goodbye, bus_out, cancelPending,
                 discardBacklog>>
  /\ UNCHANGED visObs
  /\ UNCHANGED hud
  /\ UNCHANGED auxVars
  /\ UNCHANGED sinkObs

\* vision_ai_image = NULL
B_VisionNull ==
  /\ pc["bus"] = "pv_null"
  /\ vision_ai_image' = NULL
  /\ free_ptr' = [free_ptr EXCEPT !["bus"] = NULL]
  /\ Goto("bus", "pv_malloc")
  /\ UNCHANGED <<callVars, ttsVars, ctlVars, mainVars, vision_ai_image_size,
                 vision_ai_ready, heap, llm_image, envVars, obsVars>>
  /\ UNCHANGED visObs
  /\ UNCHANGED hud
  /\ UNCHANGED auxVars
  /\ UNCHANGED sinkObs

\* vision_ai_image = malloc(image_size): any block not in use, or failure
B_VisionMalloc ==
  /\ pc["bus"] = "pv_malloc"
  /\ \/ \E p \in Buffers :
          /\ heap[p].st # "alloc"
          /\ heap' = [heap EXCEPT ![p] = [st |-> "alloc", img |-> 0]]
          /\ vision_ai_image' = p
          /\ Goto("bus", "pv_copy")
     \/ /\ Goto("bus", "b_idle")
        /\ UNCHANGED <<heap, vision_ai_image>>
  /\ UNCHANGED <<callVars, ttsVars, ctlVars, mainVars, vision_ai_image_size,
                 vision_ai_ready, llm_image, free_ptr, envVars, obsVars>>
  /\ UNCHANGED visObs
  /\ UNCHANGED hud
  /\ UNCHANGED auxVars
  /\ UNCHANGED sinkObs

\* memcpy() completes; vision_ai_image_size = image_size; vision_ai_ready = 1
B_VisionCopy ==
  /\ pc["bus"] = "pv_copy"
  /\ heap' = [heap EXCEPT ![vision_ai_image] = [st |-> "alloc", img |-> inputs]]
  /\ vision_ai_image_size' = inputs
  /\ vision_ai_ready' = TRUE
  /\ delivered' = inputs
  /\ Goto("bus", "b_idle")
  /\ UNCHANGED <<callVars, ttsVars, ctlVars, mainVars, vision_ai_image,
                 llm_image, free_ptr, envVars, obsVars>>
  /\ UNCHANGED hud
  /\ UNCHANGED auxVars
  /\ UNCHANGED sinkObs

Main ==
  \/ M_Greet \/ M_Loop \/ M_Silence \/ M_WakeListen
  \/ M_WakeGoodbye \/ M_WakeQuit \/ M_WakeCancel \/ M_WakeWord \/ M_WakeHello
  \/ M_Record \/ M_ProcessMatch \/ M_ProcessLlm \/ M_ProcessEnd
  \/ M_VisionLlmCall \/ M_VisionLlmReturn \/ M_VisionCleanCheck
  \/ M_VisionFree \/ M_VisionNull \/ M_VisionReset
  \/ M_CleanupLock \/ M_CleanupSignal \/ M_CleanupJoin
  \/ text_to_speech_lock("main") \/ text_to_speech_push("main")

Bus ==
  \/ B_TextToSpeech \/ B_Viewing \/ B_VisionFree \/ B_VisionNull
  \/ B_VisionMalloc \/ B_VisionCopy
  \/ text_to_speech_lock("bus") \/ text_to_speech_push("bus")

Next == Main \/ Worker \/ Bus \/ signal_handler

Spec == Init /\ [][Next]_vars

\* Every thread that can take a step eventually takes one.
FairSpec == Spec /\ WF_vars(Main) /\ WF_vars(Worker) /\ WF_vars(Bus)

\* ---- music: musicCallback(), mosquitto_comms.c:349-468, and the FLAC ----
\* ---- task playFlacAudio(), flac_playback.c:201-274 ------------------------

\* The thread has returned from playFlacAudio().
Terminated(t) == task[t] \in {"aborted", "returned"}

\* The task has been created and has not finished decoding.
Playing(t) == task[t] \in {"start", "playing"}

\* (music_thread != -1) && (pthread_kill(music_thread, 0) == 0).  For a
\* thread that has ended the result depends on the C library.
AliveResults(th) ==
  IF th = NoThread THEN {FALSE}
  ELSE IF Terminated(th) THEN {TRUE, FALSE}
  ELSE {TRUE}

\* The thread pthread_create() starts: the first not used yet; 0 when
\* pthread_create() fails.
NewTask ==
  IF \E t \in TaskIds : task[t] = "unborn"
    THEN CHOOSE t \in TaskIds :
           task[t] = "unborn" /\ \A u \in TaskIds : task[u] = "unborn" => t <= u
    ELSE 0

\* current_track after "next" and "previous"
NextTrack(ct, count) == IF ct + 1 >= count THEN 0 ELSE ct + 1
PreviousTrack(ct, count) == IF ct - 1 < 0 THEN count - 1 ELSE ct - 1

\* musicCallback(action) up to the join, run by thread c.  "stop" is the
\* whole callback: setMusicPlay(0).  The others test the current thread, set
\* the stop flag and join it; a thread that joins itself gets EDEADLK.
musicCallback_enter(c, a) ==
  IF a = "stop"
    THEN /\ music_play' = 0
         /\ stopPending' = [t \in TaskIds |-> stopPending[t] \/ Playing(t)]
         /\ UNCHANGED <<mcPc, mcAction, mcTarget>>
    ELSE /\ \E alive \in AliveResults(music_thread) :
              IF alive
                THEN /\ music_play' = 0
                     /\ IF music_thread = c
                          THEN /\ mcPc' = [mcPc EXCEPT ![c] = "body"]
                               /\ UNCHANGED mcTarget
                          ELSE /\ mcPc' = [mcPc EXCEPT ![c] = "join"]
                               /\ mcTarget' = [mcTarget EXCEPT ![c] = music_thread]
                ELSE /\ mcPc' = [mcPc EXCEPT ![c] = "body"]
                     /\ UNCHANGED <<music_play, mcTarget>>
         /\ mcAction' = [mcAction EXCEPT ![c] = a]
         /\ UNCHANGED stopPending

\* a music message arrives: the bus thread runs musicCallback(action, value)
Music_BusCommand ==
  /\ mcPc[BusThread] = "idle"
  /\ musicCmds < MaxMusicCmds
  /\ musicCmds' = musicCmds + 1
  /\ \E a \in MusicActions : musicCallback_enter(BusThread, a)
  /\ UNCHANGED <<music_thread, playlist_count, current_track, task, written>>
  /\ UNCHANGED <<coreVars, llmVars, routerVars, textVars, pureVars>>

\* pthread_join(music_thread, NULL) returns
Music_Join ==
  /\ \E c \in MusicCallers :
       /\ mcPc[c] = "join"
       /\ Terminated(mcTarget[c])
       /\ mcPc' = [mcPc EXCEPT ![c] = "body"]
       /\ mcTarget' = [mcTarget EXCEPT ![c] = NoThread]
  /\ UNCHANGED <<music_thread, music_play, playlist_count, current_track, task,
                 written, mcAction, musicCmds, stopPending>>
  /\ UNCHANGED <<coreVars, llmVars, routerVars, textVars, pureVars>>

\* The rest of musicCallback(): "play" builds the playlist, "next" and
\* "previous" move current_track; with a track to play pthread_create()
\* starts playFlacAudio.  A music thread that called it returns.
Music_Body ==
  /\ \E c \in MusicCallers :
       /\ mcPc[c] = "body"
       /\ \E found \in 0..MaxTracks :
            LET count == IF mcAction[c] = "play" THEN found ELSE playlist_count
                track == IF mcAction[c] = "play" THEN 0
                         ELSE IF count = 0 THEN current_track
                         ELSE IF mcAction[c] = "next"
                           THEN NextTrack(current_track, count)
                         ELSE PreviousTrack(current_track, count)
                new == IF count > 0 THEN NewTask ELSE 0
            IN /\ mcAction[c] # "play" => found = 0
               /\ playlist_count' = count
               /\ current_track' = track
               /\ music_thread' = IF new # 0 THEN new ELSE music_thread
               /\ task' = [t \in TaskIds |->
                             IF t = new THEN "start"
                             ELSE IF t = c THEN "returned"
                             ELSE task[t]]
       /\ mcPc' = [mcPc EXCEPT ![c] = "idle"]
       /\ mcAction' = [mcAction EXCEPT ![c] = ""]
  /\ UNCHANGED <<music_play, written, mcTarget, musicCmds, stopPending>>
  /\ UNCHANGED <<coreVars, llmVars, routerVars, textVars, pureVars>>

\* playFlacAudio(): open the sink and the decoder, then music_play = 1; a
\* failure before that returns
playFlacAudio_start ==
  /\ \E t \in TaskIds :
       /\ task[t] = "start"
       /\ \/ /\ music_play' = 1
             /\ task' = [task EXCEPT ![t] = "playing"]
          \/ /\ task' = [task EXCEPT ![t] = "returned"]
             /\ UNCHANGED music_play
  /\ UNCHANGED <<music_thread, playlist_count, current_track, written, mcPc,
                 mcAction, mcTarget, musicCmds, stopPending>>
  /\ UNCHANGED <<coreVars, llmVars, routerVars, textVars, pureVars>>

\* write_callback(): abort when music_play is 0, else write the frame.  After
\* an abort the decoder returns false and the task returns.
write_callback ==
  /\ \E t \in TaskIds :
       /\ task[t] = "playing"
       /\ written[t] < MaxFrames
       /\ IF music_play = 0
            THEN /\ task' = [task EXCEPT ![t] = "aborted"]
                 /\ UNCHANGED written
            ELSE /\ written' = [written EXCEPT ![t] = written[t] + 1]
                 /\ UNCHANGED task
  /\ UNCHANGED <<music_thread, music_play, playlist_count, current_track, mcPc,
                 mcAction, mcTarget, musicCmds, stopPending>>
  /\ UNCHANGED <<coreVars, llmVars, routerVars, textVars, pureVars>>

\* the decoder reaches the end of the stream and returns true; the sink is
\* freed
playFlacAudio_end ==
  /\ \E t \in TaskIds :
       /\ task[t] = "playing"
       /\ task' = [task EXCEPT ![t] = "eof"]
  /\ UNCHANGED <<music_thread, music_play, playlist_count, current_track,
                 written, mcPc, mcAction, mcTarget, musicCmds, stopPending>>
  /\ UNCHANGED <<coreVars, llmVars, routerVars, textVars, pureVars>>

\* if (error) musicCallback("next", NULL), on the music thread itself
playFlacAudio_next ==
  /\ \E t \in TaskIds :
       /\ task[t] = "eof"
       /\ task' = [task EXCEPT ![t] = "next"]
       /\ musicCallback_enter(t, "next")
  /\ UNCHANGED <<music_thread, playlist_count, current_track, written, musicCmds>>
  /\ UNCHANGED <<coreVars, llmVars, routerVars, textVars, pureVars>>

MusicNext ==
  \/ Music_BusCommand \/ Music_Join \/ Music_Body
  \/ playFlacAudio_start \/ write_callback \/ playFlacAudio_end
  \/ playFlacAudio_next

\* The music messages and the music threads alone.
MusicSpec == Init /\ [][MusicNext]_vars

\* ---- the LLM adapter: setLLM() and getGptResponse(), openai.c ------------

\* setLLM(type): the announcement and the new llm_url
setLLM(type) ==
  IF type = CLOUD_LLM
    THEN [say |-> "Setting to AI to cloud LLM.", url |-> CLOUDAI_URL]
  ELSE IF type = LOCAL_LLM
    THEN [say |-> "Setting to AI to local LLM.", url |-> LOCALAI_URL]
  ELSE [say |-> "Unknown AI requested.", url |-> llm_url]

\* checkInternetConnectionWithTimeout(url, 4): an empty URL has no host
ProbeResults(url) == IF url = NoUrl THEN {FALSE} ELSE {TRUE, FALSE}

\* A probe branch that abandons the request whichever URL failed.
ProbeBranch_nofallback(url, reachable) ==
  IF reachable THEN "request" ELSE "abandon"

\* What getGptResponse() does with the result of the probe.
ProbeBranch(url, reachable) ==
  IF reachable THEN "request"
  ELSE IF url = CLOUDAI_URL THEN "fallback"
  ELSE "abandon"

\* The LLM switch of the bus calls setLLM(); it is taken between requests.
Llm_Switch ==
  /\ llmPc = "idle"
  /\ \E type \in {CLOUD_LLM, LOCAL_LLM} :
       /\ llm_tts' = Push(<<>>, setLLM(type).say)
       /\ llm_url' = setLLM(type).url
  /\ llmCaller' = NoValue
  /\ httpUrl' = NoValue
  /\ llmRet' = NoValue
  /\ llmSel0' = NoValue
  /\ probeRes' = NoValue
  /\ UNCHANGED <<llmPc, llmRequests, conversation_history>>
  /\ UNCHANGED <<coreVars, musicVars, routerVars, textVars, pureVars>>

\* main() calls getGptResponse(): the user message joins the conversation and
\* the payload is built
Llm_Request ==
  /\ llmPc = "idle"
  /\ llmRequests < MaxLlmRequests
  /\ llmRequests' = llmRequests + 1
  /\ \E from \in {PROCESS_COMMAND, VISION_AI_READY} : llmCaller' = from
  /\ llmPc' = "probe"
  /\ llmSel0' = llm_url
  /\ probeRes' = NoValue
  /\ httpUrl' = NoValue
  /\ llmRet' = NoValue
  /\ llm_tts' = <<>>
  /\ conversation_history' = Append(conversation_history, "user")
  /\ UNCHANGED llm_url
  /\ UNCHANGED <<coreVars, musicVars, routerVars, textVars, pureVars>>

\* the reachability probe and the fallback
Llm_Probe ==
  /\ llmPc = "probe"
  /\ \E reachable \in ProbeResults(llm_url) :
       LET br == ProbeBranch(llm_url, reachable) IN
       /\ probeRes' = IF reachable THEN "ok" ELSE "fail"
       /\ IF br = "request"
            THEN /\ llmPc' = "http"
                 /\ UNCHANGED <<llm_url, llm_tts, llmRet>>
          ELSE IF br = "fallback"
            THEN /\ llm_tts' = Push(Push(llm_tts, "Unable to contact cloud LLM."),
                                    setLLM(LOCAL_LLM).say)
                 /\ llm_url' = setLLM(LOCAL_LLM).url
                 /\ llmPc' = "http"
                 /\ UNCHANGED llmRet
          ELSE /\ llmRet' = "NULL"
               /\ llmPc' = "returned"
               /\ UNCHANGED <<llm_url, llm_tts>>
  /\ UNCHANGED <<llmCaller, httpUrl, llmRequests, conversation_history, llmSel0>>
  /\ UNCHANGED <<coreVars, musicVars, routerVars, textVars, pureVars>>

\* curl_easy_perform() against llm_url and the parse of the answer: the
\* content, or NULL when the transfer or the parse fails
Llm_Http ==
  /\ llmPc = "http"
  /\ httpUrl' = llm_url
  /\ \E ok \in BOOLEAN : llmRet' = IF ok THEN "reply" ELSE "NULL"
  /\ llmPc' = "returned"
  /\ UNCHANGED <<llm_url, llmCaller, llm_tts, llmRequests, conversation_history,
                 llmSel0, probeRes>>
  /\ UNCHANGED <<coreVars, musicVars, routerVars, textVars, pureVars>>

\* the caller speaks the reply, and appends it to the conversation, or speaks
\* the apology
Llm_Return ==
  /\ llmPc = "returned"
  /\ llm_tts' = Push(llm_tts, IF llmRet = "NULL" THEN ApologyText ELSE llmRet)
  /\ conversation_history' =
       IF llmRet = "NULL" THEN conversation_history
                          ELSE Append(conversation_history, "assistant")
  /\ llmPc' = "idle"
  /\ UNCHANGED <<llm_url, llmCaller, httpUrl, llmRet, llmRequests, llmSel0,
                 probeRes>>
  /\ UNCHANGED <<coreVars, musicVars, routerVars, textVars, pureVars>>

LlmNext == Llm_Switch \/ Llm_Request \/ Llm_Probe \/ Llm_Http \/ Llm_Return

\* The LLM requests of main() and the LLM switch alone.
LlmSpec == Init /\ [][LlmNext]_vars

(***************************************************************************)
(* mosquitto_comms.c: the command router.  on_message() hands the payload  *)
(* to parseJsonCommandandExecute(), which reads the fields "device",       *)
(* "action" and "value" and walks the device names.                        *)
(***************************************************************************)
MAX_DEVICE_TYPES == 12

deviceTypeStrings ==
  << "audio playback device", "audio capture device", "text to speech", "date",
     "time", "music", "voice amplifier", "shutdown alpha bravo charlie",
     "viewing", "volume", "local llm", "cloud llm" >>

\* the device field holds the value of the enumeration, counted from 0
deviceCallbackArray ==
  << [device |-> 0, callback |-> "setPcmPlaybackDevice"],
     [device |-> 1, callback |-> "setPcmCaptureDevice"],
     [device |-> 2, callback |-> "textToSpeechCallback"],
     [device |-> 3, callback |-> "dateCallback"],
     [device |-> 4, callback |-> "timeCallback"],
     [device |-> 5, callback |-> "musicCallback"],
     [device |-> 6, callback |-> "voiceAmplifierCallback"],
     [device |-> 7, callback |-> "shutdownCallback"],
     [device |-> 8, callback |-> "viewingCallback"],
     [device |-> 9, callback |-> "volumeCallback"] >>

UnknownDevice == "toaster"
WildPointer == "<not a callback>"

DeviceFields == {deviceTypeStrings[k] : k \in DOMAIN deviceTypeStrings}
                  \cup {UnknownDevice, NoField}
ActionFields == {"play", "stop", NoField}
ValueFields == {"on", NoField}

Messages ==
  {NotJson} \cup [json : {TRUE}, device : DeviceFields, action : ActionFields,
                  value : ValueFields]

\* deviceCallbackArray[i].callback as the loop reads it, i counted from 0: past
\* the last element the read is out of bounds and yields whatever lies behind
\* the array, a null pointer or something that is not a callback
CallbackAt(i) ==
  IF i < Len(deviceCallbackArray) THEN {deviceCallbackArray[i + 1].callback}
  ELSE {"NULL", WildPointer}

\* the loop over the device names from index i on: the possible sequences of calls
RECURSIVE Dispatch(_, _)
Dispatch(i, msg) ==
  IF i >= MAX_DEVICE_TYPES THEN {<<>>}
  ELSE IF msg.device = deviceTypeStrings[i + 1]
    THEN { (IF cb = "NULL" THEN <<>>
            ELSE <<[callback |-> cb, actionName |-> msg.action, value |-> msg.value]>>)
             \o rest : cb \in CallbackAt(i), rest \in Dispatch(i + 1, msg) }
  ELSE Dispatch(i + 1, msg)

parseJsonCommandandExecute(msg) ==
  IF ~msg.json THEN {<<>>}
  ELSE IF msg.device = NoField THEN {<<>>}
  ELSE IF msg.action = NoField THEN {<<>>}
  ELSE Dispatch(0, msg)

on_message ==
  /\ routerMsgs < MaxRouterMsgs
  /\ \E msg \in Messages : \E calls \in parseJsonCommandandExecute(msg) :
       /\ rMsg' = msg
       /\ rCalls' = calls
  /\ routerMsgs' = routerMsgs + 1
  /\ UNCHANGED <<coreVars, musicVars, llmVars, textVars, pureVars>>

RouterNext == on_message

RouterSpec == Init /\ [][RouterNext]_vars

(***************************************************************************)
(* dawn.c and text_to_speech.cpp: what main() does to the reply of the LLM *)
(* before it hands it to text_to_speech().  A text is the sequence of its  *)
(* bytes, UTF-8 as the JSON parser of getGptResponse() returns it.         *)
(***************************************************************************)
\* "<end_of_turn>"
END_OF_TURN == <<60, 101, 110, 100, 95, 111, 102, 95, 116, 117, 114, 110, 62>>

\* "*"
Star == <<42>>

\* the parts replies are made of: "a", "*", U+00E9, U+2728 (a dingbat),
\* U+1F600 (an emoticon), the marker, and the marker's halves "<end_" and
\* "of_turn>"
Pieces ==
  { <<97>>, Star, <<195, 169>>, <<226, 156, 168>>, <<240, 159, 152, 128>>,
    END_OF_TURN, SubSeq(END_OF_TURN, 1, 5), SubSeq(END_OF_TURN, 6, 13) }

RECURSIVE Flatten(_)
Flatten(ps) == IF ps = <<>> THEN <<>> ELSE Head(ps) \o Flatten(Tail(ps))

\* the texts getGptResponse() can return: up to MaxPieces parts
Replies == UNION { {Flatten(ps) : ps \in [1..n -> Pieces]} : n \in 0..MaxPieces }

\* strstr(): the position of the first occurrence of needle, 0 for NULL
strstr(haystack, needle) ==
  LET hits == { i \in 1..(Len(haystack) - Len(needle) + 1) :
                  SubSeq(haystack, i, i + Len(needle) - 1) = needle }
  IN IF hits = {} THEN 0 ELSE CHOOSE i \in hits : \A j \in hits : i <= j

\* if ((match = strstr(response_text, "<end_of_turn>")) != NULL) *match = '\0';
StripEndOfTurn(str) ==
  LET match == strstr(str, END_OF_TURN)
  IN IF match # 0 THEN SubSeq(str, 1, match - 1) ELSE str

remove_chars(str, chars) ==
  SelectSeq(str, LAMBDA c : ~ \E k \in DOMAIN chars : chars[k] = c)

is_emoji(codepoint) ==
  \/ codepoint >= 128512 /\ codepoint <= 128591   \* 0x1F600 .. 0x1F64F
  \/ codepoint >= 127744 /\ codepoint <= 128511   \* 0x1F300 .. 0x1F5FF
  \/ codepoint >= 128640 /\ codepoint <= 128767   \* 0x1F680 .. 0x1F6FF
  \/ codepoint >= 9728 /\ codepoint <= 9983       \* 0x2600 .. 0x26FF
  \/ codepoint >= 9984 /\ codepoint <= 10175      \* 0x2700 .. 0x27BF
  \/ codepoint >= 129280 /\ codepoint <= 129535   \* 0x1F900 .. 0x1F9FF

\* the byte at position p; the terminating 0 behind the text
ByteAt(str, p) == IF p <= Len(str) THEN str[p] ELSE 0

\* the character remove_emojis() decodes at position src: its codepoint and
\* the number of its bytes
DecodeAt(str, src) ==
  LET byte == ByteAt(str, src) IN
    IF byte < 128 THEN [codepoint |-> byte, bytes_in_char |-> 1]
    ELSE IF byte < 224
      THEN [codepoint |-> (byte % 32) * 64 + (ByteAt(str, src + 1) % 64),
            bytes_in_char |-> 2]
    ELSE IF byte < 240
      THEN [codepoint |-> (byte % 16) * 4096 + (ByteAt(str, src + 1) % 64) * 64
                            + (ByteAt(str, src + 2) % 64),
            bytes_in_char |-> 3]
    ELSE [codepoint |-> (byte % 8) * 262144 + (ByteAt(str, src + 1) % 64) * 4096
                          + (ByteAt(str, src + 2) % 64) * 64
                          + (ByteAt(str, src + 3) % 64),
          bytes_in_char |-> 4]

\* the loop of remove_emojis() from position src on
RECURSIVE RemoveEmojisFrom(_, _)
RemoveEmojisFrom(str, src) ==
  IF src > Len(str) THEN <<>>
  ELSE LET d == DecodeAt(str, src) IN
    IF ~is_emoji(d.codepoint)
      THEN SubSeq(str, src, src + d.bytes_in_char - 1)
             \o RemoveEmojisFrom(str, src + d.bytes_in_char)
    ELSE RemoveEmojisFrom(str, src + d.bytes_in_char)

remove_emojis(str) == RemoveEmojisFrom(str, 1)

\* the codepoints of a text
RECURSIVE CodepointsFrom(_, _)
CodepointsFrom(str, src) ==
  IF src > Len(str) THEN {}
  ELSE LET d == DecodeAt(str, src)
       IN {d.codepoint} \cup CodepointsFrom(str, src + d.bytes_in_char)

\* response_text = getGptResponse(...) returned a text, in PROCESS_COMMAND or
\* in VISION_AI_READY
Text_getGptResponse ==
  /\ textPc = "idle"
  /\ textReplies < MaxReplies
  /\ \E path \in {PROCESS_COMMAND, VISION_AI_READY} : replyPath' = path
  /\ \E reply \in Replies : response_text' = reply
  /\ textPc' = "strstr"
  /\ UNCHANGED textReplies
  /\ UNCHANGED <<coreVars, musicVars, llmVars, routerVars, pureVars>>

\* both states cut the text at the marker; PROCESS_COMMAND goes on to filter
\* it, VISION_AI_READY speaks it
Text_EndOfTurn ==
  /\ textPc = "strstr"
  /\ response_text' = StripEndOfTurn(response_text)
  /\ textPc' = IF replyPath = PROCESS_COMMAND THEN "remove_chars" ELSE "tts"
  /\ UNCHANGED <<replyPath, textReplies>>
  /\ UNCHANGED <<coreVars, musicVars, llmVars, routerVars, pureVars>>

\* remove_chars(response_text, "*");
Text_RemoveChars ==
  /\ textPc = "remove_chars"
  /\ response_text' = remove_chars(response_text, Star)
  /\ textPc' = "remove_emojis"
  /\ UNCHANGED <<replyPath, textReplies>>
  /\ UNCHANGED <<coreVars, musicVars, llmVars, routerVars, pureVars>>

\* remove_emojis(response_text);
Text_RemoveEmojis ==
  /\ textPc = "remove_emojis"
  /\ response_text' = remove_emojis(response_text)
  /\ textPc' = "tts"
  /\ UNCHANGED <<replyPath, textReplies>>
  /\ UNCHANGED <<coreVars, musicVars, llmVars, routerVars, pureVars>>

\* text_to_speech(response_text); ... free(response_text);
Text_Speak ==
  /\ textPc = "tts"
  /\ response_text' = <<>>
  /\ replyPath' = NoValue
  /\ textReplies' = textReplies + 1
  /\ textPc' = "idle"
  /\ UNCHANGED <<coreVars, musicVars, llmVars, routerVars, pureVars>>

TextNext ==
  \/ Text_getGptResponse
  \/ Text_EndOfTurn
  \/ Text_RemoveChars
  \/ Text_RemoveEmojis
  \/ Text_Speak

TextSpec == Init /\ [][TextNext]_vars

(***************************************************************************)
(* dawn.c: the search for a wake phrase in the final transcript of         *)
(* WAKEWORD_LISTEN.  A text is the sequence of its characters.             *)
(***************************************************************************)
AI_NAME == <<"f", "r", "i", "d", "a", "y">>

wakeWords ==
  << <<"h", "e", "l", "l", "o", " ">> \o AI_NAME,
     <<"o", "k", "a", "y", " ">> \o AI_NAME,
     <<"a", "l", "r", "i", "g", "h", "t", " ">> \o AI_NAME,
     <<"h", "e", "y", " ">> \o AI_NAME,
     <<"h", "i", " ">> \o AI_NAME,
     <<"g", "o", "o", "d", " ", "e", "v", "e", "n", "i", "n", "g", " ">> \o AI_NAME,
     <<"g", "o", "o", "d", " ", "d", "a", "y", " ">> \o AI_NAME,
     <<"g", "o", "o", "d", " ", "m", "o", "r", "n", "i", "n", "g", " ">> \o AI_NAME >>

\* the parts transcripts are made of: two wake phrases, a space and a word
WakePieces == {wakeWords[1], wakeWords[4], <<" ">>, <<"o", "n">>}

WakeTranscripts ==
  UNION { {Flatten(ps) : ps \in [1..n -> WakePieces]} : n \in 0..MaxWakePieces }

\* for (i = 0; i < numWakeWords; i++) if (strstr(input_text, wakeWords[i])) break;
\* the index the loop ends with, counted from 1; numWakeWords + 1 for no match
WakeIndex(transcript) ==
  LET found == {i \in DOMAIN wakeWords : strstr(transcript, wakeWords[i]) # 0}
  IN IF found = {} THEN Len(wakeWords) + 1
     ELSE CHOOSE i \in found : \A j \in found : i <= j

\* the branch taken and the command text: "Hello sir." when the phrase ends
\* the transcript, else strdup(next_char_ptr + 1)
WakeBranch(transcript) ==
  LET i == WakeIndex(transcript) IN
  IF i > Len(wakeWords)
    THEN [branch |-> "none", command_text |-> <<>>]
  ELSE LET next_char_ptr == strstr(transcript, wakeWords[i]) + Len(wakeWords[i]) IN
    IF next_char_ptr > Len(transcript)
      THEN [branch |-> "hello", command_text |-> <<>>]
    ELSE [branch |-> "process",
          command_text |-> SubSeq(transcript, next_char_ptr + 1, Len(transcript))]

\* a final transcript arrives in WAKEWORD_LISTEN
Wake_Final ==
  /\ wake.n < MaxWakeInputs
  /\ \E t \in WakeTranscripts :
       wake' = [text |-> t, branch |-> WakeBranch(t).branch,
                command_text |-> WakeBranch(t).command_text, n |-> wake.n + 1]
  /\ UNCHANGED sysVars
  /\ UNCHANGED <<repl, table, boot, pub, listen>>

WakeNext == Wake_Final

WakeSpec == Init /\ [][WakeNext]_vars

(***************************************************************************)
(* text_to_command_nuevo.c: the command table.  replaceWithValues() fills  *)
(* the placeholders of a template.                                         *)
(***************************************************************************)
DeviceNameKey == <<"d", "e", "v", "i", "c", "e", "_", "n", "a", "m", "e">>
ValueKey == <<"v", "a", "l", "u", "e">>

Placeholder(name) == <<"%">> \o name \o <<"%">>

\* whether strncmp(placeholder, key, placeholderLen) == 0: the name between
\* the percent signs is compared over its own length only
KeyMatches(name, key) ==
  Len(name) <= Len(key) /\ SubSeq(key, 1, Len(name)) = name

\* the position of the next '%' from position p on, 0 when there is none
NextPercent(templateStr, p) ==
  LET qs == {q \in p..Len(templateStr) : templateStr[q] = "%"}
  IN IF qs = {} THEN 0 ELSE CHOOSE q \in qs : \A r \in qs : q <= r

\* the loop of replaceWithValues() from position p on.  A null deviceName or
\* value copies nothing, as an empty one does.
RECURSIVE ReplaceFrom(_, _, _, _)
ReplaceFrom(templateStr, p, deviceName, value) ==
  IF p > Len(templateStr) THEN <<>>
  ELSE IF templateStr[p] = "%"
    THEN LET close == NextPercent(templateStr, p + 1) IN
         IF close = 0 THEN <<>>
         ELSE LET placeholder == SubSeq(templateStr, p + 1, close - 1) IN
              (IF KeyMatches(placeholder, DeviceNameKey) THEN deviceName
               ELSE IF KeyMatches(placeholder, ValueKey) THEN value
               ELSE <<>>)
                \o ReplaceFrom(templateStr, close + 1, deviceName, value)
  ELSE <<templateStr[p]>> \o ReplaceFrom(templateStr, p + 1, deviceName, value)

replaceWithValues(templateStr, deviceName, value) ==
  ReplaceFrom(templateStr, 1, deviceName, value)

\* the parts templates are made of: a letter, the placeholders of the device
\* and of the value, %datetime% and a placeholder no one knows
TemplatePieces ==
  { <<"a">>, Placeholder(DeviceNameKey), Placeholder(ValueKey),
    Placeholder(<<"d", "a", "t", "e", "t", "i", "m", "e">>), Placeholder(<<"u", "n", "i", "t">>) }

TemplatePieceSeqs == UNION { [1..n -> TemplatePieces] : n \in 0..MaxTemplatePieces }

\* the device name and the values convertActionsToCommands() passes
ReplDevice == <<"l", "a", "m", "p">>
ReplValues == { <<"*">>, <<"%", "s">> }

\* replaceWithValues() is called on a template
Cmd_Replace ==
  /\ repl.n < MaxReplaces
  /\ \E ps \in TemplatePieceSeqs : \E v \in ReplValues :
       repl' = [pieces |-> ps, value |-> v,
                out |-> replaceWithValues(Flatten(ps), ReplDevice, v),
                n |-> repl.n + 1]
  /\ UNCHANGED sysVars
  /\ UNCHANGED <<wake, table, boot, pub, listen>>

ReplaceNext == Cmd_Replace

ReplaceSpec == Init /\ [][ReplaceNext]_vars

(***************************************************************************)
(* text_to_command_nuevo.c, dawn.c: the configuration is compiled into     *)
(* commands[] at startup, and PROCESS_COMMAND matches a command text       *)
(* against it.                                                             *)
(***************************************************************************)
MAX_COMMANDS == 1000
MAX_ACTIONS == 10
MAX_SUBACTIONS == 10
MAX_WORDS == 10

Digits == <<"1", "2", "3", "4", "5", "6", "7", "8", "9", "0">>

\* The names of a configuration: device m of action type i, its alias n and
\* its topic; word k and the command of sub-action j.  The first word of a
\* sub-action is its own and takes a value; the other words take none and
\* are the same in every sub-action.
DeviceName(i, m) == <<"d", Digits[i], Digits[m]>>
DeviceAlias(i, m, n) == <<"a", Digits[i], Digits[m], Digits[n]>>
DeviceTopic(i, m) == <<"t", Digits[i], Digits[m]>>
ActionWord(j, k) ==
  IF k = 1
    THEN <<"s", Digits[j], " ">> \o Placeholder(DeviceNameKey)
           \o <<" ", "t", "o", " ">> \o Placeholder(ValueKey)
    ELSE <<"p", Digits[k], " ">> \o Placeholder(DeviceNameKey)
ActionCommand(j) ==
  <<"c", Digits[j], " ">> \o Placeholder(DeviceNameKey)
    \o <<"=">> \o Placeholder(ValueKey)

\* the configurations: every action type has the same number of sub-actions
\* and devices, every sub-action of words, every device of aliases
SmallShapes ==
  [actions : 0..MaxCount, subActions : 1..MaxCount, actionWords : 1..MaxCount,
   devices : 0..MaxCount, aliases : 0..MaxCount]

\* the configurations that fill actions[] and reach MAX_COMMANDS
FullShapes ==
  { [actions |-> MAX_ACTIONS, subActions |-> MAX_SUBACTIONS,
     actionWords |-> MAX_WORDS, devices |-> 1, aliases |-> a] : a \in 0..1 }

Shapes == SmallShapes \cup FullShapes

\* actions[] as parseCommandConfig() fills it from a configuration that is
\* within the sizes of the arrays
Actions(shape) ==
  [i \in 1..shape.actions |->
    [subActions |-> [j \in 1..shape.subActions |->
                      [actionWords |-> [k \in 1..shape.actionWords |-> ActionWord(j, k)],
                       actionCommand |-> ActionCommand(j)]],
     devices |-> [m \in 1..shape.devices |->
                   [name |-> DeviceName(i, m),
                    aliases |-> [n \in 1..shape.aliases |-> DeviceAlias(i, m, n)],
                    topic |-> DeviceTopic(i, m)]]]]

\* the command filled with the spoken name
CommandEntry_SpokenName(thisActionWord, thisActionCommand, spoken, thisDevice, thisTopic) ==
  [actionWordsWildcard |-> replaceWithValues(thisActionWord, spoken, <<"*">>),
   actionWordsRegex |-> replaceWithValues(thisActionWord, spoken, <<"%", "s">>),
   actionCommand |-> replaceWithValues(thisActionCommand, spoken, <<"%", "s">>),
   topic |-> thisTopic]

\* one element of commands[]: the words with the spoken name, the command
\* with the name of the device
CommandEntry(thisActionWord, thisActionCommand, spoken, thisDevice, thisTopic) ==
  [actionWordsWildcard |-> replaceWithValues(thisActionWord, spoken, <<"*">>),
   actionWordsRegex |-> replaceWithValues(thisActionWord, spoken, <<"%", "s">>),
   actionCommand |-> replaceWithValues(thisActionCommand, thisDevice, <<"%", "s">>),
   topic |-> thisTopic]

\* the loop over the aliases left out
DeviceEntries_NoAliases(thisActionWord, thisActionCommand, device) ==
  <<CommandEntry(thisActionWord, thisActionCommand, device.name, device.name,
                 device.topic)>>

\* the body of the loop over the devices: the element of the device, then
\* one for each alias
DeviceEntries(thisActionWord, thisActionCommand, device) ==
  <<CommandEntry(thisActionWord, thisActionCommand, device.name, device.name,
                 device.topic)>>
    \o [n \in 1..Len(device.aliases) |->
          CommandEntry(thisActionWord, thisActionCommand, device.aliases[n],
                       device.name, device.topic)]

\* what the four loops append when nothing stops them
AllEntries(actions) ==
  Flatten([i \in 1..Len(actions) |->
    Flatten([j \in 1..Len(actions[i].subActions) |->
      Flatten([k \in 1..Len(actions[i].subActions[j].actionWords) |->
        Flatten([m \in 1..Len(actions[i].devices) |->
          DeviceEntries(actions[i].subActions[j].actionWords[k],
                        actions[i].subActions[j].actionCommand,
                        actions[i].devices[m])])])])])

\* convertActionsToCommands(): it returns as soon as numCommands is
\* MAX_COMMANDS, after printing COMMAND OVERFLOW
convertActionsToCommands(actions) ==
  LET all == AllEntries(actions) IN
  IF Len(all) >= MAX_COMMANDS
    THEN [commands |-> SubSeq(all, 1, MAX_COMMANDS), overflow |-> TRUE]
    ELSE [commands |-> all, overflow |-> FALSE]

\* main() returns 1, recording the step that failed
Exit(step) ==
  /\ table' = [table EXCEPT !.phase = "exit"]
  /\ boot' = [boot EXCEPT !.failed = @ \cup {step}, !.status = 1]

\* main(): the configuration file is opened and read
Boot_Config ==
  /\ table.phase = "config"
  /\ \E ok \in BOOLEAN :
       IF ok THEN /\ table' = [table EXCEPT !.phase = "parse"]
                  /\ UNCHANGED boot
       ELSE Exit("config")
  /\ UNCHANGED sysVars
  /\ UNCHANGED <<wake, repl, pub, listen>>

\* What parseCommandConfig() makes of the file: "rejected" when it returns 1
\* (no JSON, or no "types", "devices" or "audio devices"), "no_actions" when
\* the last type has no "actions", where the loop breaks before it counts
\* the type and 0 is returned, "ok" otherwise.
ParseOutcomes(shape) ==
  {"ok", "rejected"} \cup (IF shape.actions >= 1 THEN {"no_actions"} ELSE {})

\* main(): the configuration is parsed and compiled; the result of
\* convertActionsToCommands() is not looked at and startup goes on
Cmd_Compile ==
  /\ table.phase = "parse"
  /\ \E shape \in Shapes : \E outcome \in ParseOutcomes(shape) :
       IF outcome = "rejected" THEN Exit("parse")
       ELSE LET numActions == IF outcome = "ok" THEN shape.actions
                              ELSE shape.actions - 1
                r == convertActionsToCommands(SubSeq(Actions(shape), 1, numActions))
            IN /\ table' = [shape |-> shape, numActions |-> numActions,
                            commands |-> r.commands, overflow |-> r.overflow,
                            phase |-> "capture"]
               /\ boot' = [boot EXCEPT !.failed =
                             IF outcome = "ok" THEN @ ELSE @ \cup {"field"}]
  /\ UNCHANGED sysVars
  /\ UNCHANGED <<wake, repl, pub, listen>>

\* main(): the capture device is opened, the buffer allocated, the
\* recognizer made; each returns 1 when it fails
Boot_Capture ==
  /\ table.phase = "capture"
  /\ \E ok \in BOOLEAN :
       IF ok THEN /\ table' = [table EXCEPT !.phase = "bus"]
                  /\ UNCHANGED boot
       ELSE Exit("capture")
  /\ UNCHANGED sysVars
  /\ UNCHANGED <<wake, repl, pub, listen>>

\* main(): mosquitto_new(), mosquitto_connect() and mosquitto_subscribe()
\* return 1 when they fail; mosquitto_loop_start() starts the bus thread
Boot_Bus ==
  /\ table.phase = "bus"
  /\ \E ok \in BOOLEAN :
       IF ok THEN /\ table' = [table EXCEPT !.phase = "tts"]
                  /\ boot' = [boot EXCEPT !.suback = "pending"]
       ELSE Exit("bus")
  /\ UNCHANGED sysVars
  /\ UNCHANGED <<wake, repl, pub, listen>>

\* on_subscribe(): the broker grants or rejects the subscription; when it
\* rejects every one the client disconnects, and main() is not told
on_subscribe ==
  /\ boot.suback = "pending"
  /\ boot.status = Running
  /\ \E have_subscription \in BOOLEAN :
       boot' = [boot EXCEPT
                  !.suback = IF have_subscription THEN "granted" ELSE "rejected",
                  !.failed = IF have_subscription THEN @ ELSE @ \cup {"suback"}]
  /\ UNCHANGED sysVars
  /\ UNCHANGED <<wake, repl, table, pub, listen>>

\* main(): initialize_text_to_speech() returns nothing; when the playback
\* device does not open it clears is_initialized and starts no worker.
\* signal() failing ends the process with EXIT_FAILURE; otherwise the
\* listening loop is entered.
Boot_Tts ==
  /\ table.phase = "tts"
  /\ \E opened \in BOOLEAN : \E registered \in BOOLEAN :
       /\ table' = [table EXCEPT !.phase = IF registered THEN "listening" ELSE "exit"]
       /\ boot' = [boot EXCEPT
                     !.is_initialized = IF opened THEN 1 ELSE 0,
                     !.failed = @ \cup (IF opened THEN {} ELSE {"playback"})
                                  \cup (IF registered THEN {} ELSE {"signal"}),
                     !.status = IF registered THEN @ ELSE 1]
  /\ UNCHANGED sysVars
  /\ UNCHANGED <<wake, repl, pub, listen>>

\* fnmatch(pattern, string, 0) from positions i and j on: '*' stands for any
\* characters, '?' for one
RECURSIVE FnMatchFrom(_, _, _, _)
FnMatchFrom(pattern, i, string, j) ==
  IF i > Len(pattern) THEN j > Len(string)
  ELSE IF pattern[i] = "*"
    THEN \E k \in j..(Len(string) + 1) : FnMatchFrom(pattern, i + 1, string, k)
  ELSE IF j > Len(string) THEN FALSE
  ELSE IF pattern[i] = "?" \/ pattern[i] = string[j]
    THEN FnMatchFrom(pattern, i + 1, string, j + 1)
  ELSE FALSE

\* searchString(): the template with a '*' appended is matched against the
\* whole of the second string
searchString(templateStr, secondStr) ==
  IF FnMatchFrom(templateStr \o <<"*">>, 1, secondStr, 1) THEN 1 ELSE 0

\* the text behind the first occurrence of the substring, as a sequence of
\* one text; the empty sequence stands for the NULL of no occurrence
extract_remaining_after_substring(input, substring) ==
  LET pos == strstr(input, substring) IN
  IF pos = 0 THEN <<>>
  ELSE <<SubSeq(input, pos + Len(substring), Len(input))>>

\* sscanf(command_text, format, thisValue): the word at the first %s when
\* the text before it is the one of the format, nothing else
SscanfValue(spoken_text, format) ==
  LET p == strstr(format, <<"%", "s">>) IN
  IF p = 0 \/ Len(spoken_text) < p
       \/ SubSeq(spoken_text, 1, p - 1) # SubSeq(format, 1, p - 1)
    THEN <<>>
  ELSE LET ends == {q \in p..Len(spoken_text) : spoken_text[q] = " "}
           stop == IF ends = {} THEN Len(spoken_text) + 1
                   ELSE CHOOSE q \in ends : \A r \in ends : q <= r
       IN SubSeq(spoken_text, p, stop - 1)

\* thisValue as a sequence of one text: what follows the words when they
\* end in %s, what sscanf() reads when they do not; the empty sequence when
\* strcpy() is handed NULL
ThisValue(spoken_text, actionWordsRegex) ==
  LET strLength == Len(actionWordsRegex) IN
  IF strLength >= 2 /\ actionWordsRegex[strLength - 1] = "%"
       /\ actionWordsRegex[strLength] = "s"
    THEN extract_remaining_after_substring(spoken_text,
                                           SubSeq(actionWordsRegex, 1, strLength - 2))
    ELSE <<SscanfValue(spoken_text, actionWordsRegex)>>

\* snprintf(thisCommand, size, actionCommand, thisValue)
ThisCommand(actionCommand, thisValue) ==
  LET p == strstr(actionCommand, <<"%", "s">>) IN
  IF p = 0 THEN actionCommand
  ELSE SubSeq(actionCommand, 1, p - 1) \o thisValue
         \o SubSeq(actionCommand, p + 2, Len(actionCommand))

\* the loop without its break: the last element the text is found in
MatchIndex_Last(commands, spoken_text) ==
  LET hits == {i \in 1..Len(commands) :
                 searchString(commands[i].actionWordsWildcard, spoken_text) = 1}
  IN IF hits = {} THEN 0 ELSE CHOOSE i \in hits : \A h \in hits : i >= h

\* the loop over commands[]: the index of the element it breaks at, the
\* first one searchString() finds the text in, 0 when it runs to the end
MatchIndex(commands, spoken_text) ==
  LET hits == {i \in 1..Len(commands) :
                 searchString(commands[i].actionWordsWildcard, spoken_text) = 1}
  IN IF hits = {} THEN 0 ELSE CHOOSE i \in hits : \A h \in hits : i <= h

\* what the loop publishes: one message for the element it stops at.  A
\* null pointer from extract_remaining_after_substring() ends the process
\* in strcpy() before anything is published.
Published(commands, i, spoken_text) ==
  IF i = 0 THEN <<>>
  ELSE LET thisValue == ThisValue(spoken_text, commands[i].actionWordsRegex) IN
       IF thisValue = <<>> THEN <<>>
       ELSE <<[topic |-> commands[i].topic,
               payload |-> ThisCommand(commands[i].actionCommand, thisValue[1])]>>

\* the command texts: the words of the first sub-actions with the names of
\* the first devices and aliases and a value, and one that is no command
SpokenNames ==
  { DeviceName(1, 1), DeviceAlias(1, 1, 1), DeviceAlias(2, 2, 2) }
SpokenValues == { <<"7">> }
CommandTexts ==
  {replaceWithValues(ActionWord(j, k), name, v) :
     j \in 1..2, k \in 1..2, name \in SpokenNames, v \in SpokenValues}
    \cup { <<"x">> }

\* PROCESS_COMMAND: the loop over commands[] for a command text
Cmd_Match ==
  /\ table.phase = "listening"
  /\ \E spoken_text \in CommandTexts :
       LET i == MatchIndex(table.commands, spoken_text) IN
       pub' = [text |-> spoken_text, index |-> i,
               msgs |-> Published(table.commands, i, spoken_text),
               matched |-> TRUE]
  /\ UNCHANGED sysVars
  /\ UNCHANGED <<wake, repl, table, boot, listen>>

CommandNext ==
  \/ Boot_Config \/ Cmd_Compile \/ Boot_Capture \/ Boot_Bus \/ on_subscribe
  \/ Boot_Tts \/ Cmd_Match

CommandSpec == Init /\ [][CommandNext]_vars

(***************************************************************************)
(* dawn.c: what the listening states read.  One iteration of SILENCE,      *)
(* WAKEWORD_LISTEN or COMMAND_RECORDING captures a chunk, takes its rms,   *)
(* feeds the recogniser and reads its partial or final result.  The TTS    *)
(* state, the image slot and the bus are those of the threads above and    *)
(* are left out here.                                                      *)
(***************************************************************************)

\* capture_buffer(): 0 with the buffer full, or 1 after a failed read with
\* the bytes read before it, which may be none.
Captures ==
  {[rc |-> 0, bytes |-> "all"], [rc |-> 1, bytes |-> "some"],
   [rc |-> 1, bytes |-> "none"]}

\* How loud the captured samples are, against backgroundRMS + 0.015.
Levels == {"below", "at", "above"}

\* calculateRMS(buff, buff_size / 2): sqrt(sumOfSquares / numSamples), which
\* is 0.0 / 0 with no samples
calculateRMS(bytes, level) == IF bytes = "none" THEN "nan" ELSE level

\* A test for speech that leaves out the threshold itself.
Talking_Above(rms) ==
  rms = "above"

\* rms >= (backgroundRMS + TALKING_THRESHOLD_OFFSET): false for a NaN
Talking(rms) ==
  rms \in {"at", "above"}

\* rms < (backgroundRMS + TALKING_THRESHOLD_OFFSET): false for a NaN
Quiet(rms) == rms = "below"

\* The lengths of an output of the recogniser.
OutputLens == 0..MaxOutputLen

\* vosk_recognizer_partial_result(): NULL (no output) or a text of some
\* length
PartialResults == {<<>>} \cup {<<n>> : n \in OutputLens}

\* vosk_recognizer_final_result(): NULL, or a JSON text of some length,
\* with or without a "text" field holding the transcript
AsrFinals ==
  {[null |-> TRUE, text |-> FALSE, len |-> 0, t |-> NoTranscript]}
    \cup {[null |-> FALSE, text |-> FALSE, len |-> n, t |-> NoTranscript] :
            n \in OutputLens}
    \cup {[null |-> FALSE, text |-> TRUE, len |-> n, t |-> t] :
            n \in OutputLens, t \in Transcripts}

\* getTextResponse(vosk_output): the transcript, or NULL (no text) without
\* a "text" field
getTextResponse(out) == IF out.text THEN <<out.t>> ELSE <<>>

\* The loop runs while quit is 0 and the process has not ended on the use
\* of a null pointer.
Listening == ~listen.quit /\ listen.nullUse = "none"

\* What the last iteration read and did.
Observed(l, cap, rms, asked, partial, fed, final) ==
  [l EXCEPT !.rc = cap.rc, !.rms = rms, !.asked = asked,
            !.partial = IF asked THEN partial ELSE <<>>,
            !.fed = fed, !.final = final]

\* strlen(), strcmp() or strdup() of a null pointer: the process ends there.
NullUse(l, what) == [l EXCEPT !.nullUse = what]

\* case SILENCE: capture, rms; on speech the state becomes silenceNextState,
\* the chunk is fed to the recogniser and the partial result is kept
L_Silence ==
  /\ Listening
  /\ listen.recState = SILENCE
  /\ \E cap \in Captures, level \in Levels, partial \in PartialResults :
       LET rms == calculateRMS(cap.bytes, level)
           l == Observed(listen, cap, rms, Talking(rms), partial,
                         Talking(rms), FALSE)
       IN listen' =
            IF Talking(rms)
              THEN [l EXCEPT !.recState = listen.silenceNextState,
                             !.vosk_output = partial]
              ELSE l
  /\ UNCHANGED sysVars
  /\ UNCHANGED <<wake, repl, table, boot, pub>>

\* The part WAKEWORD_LISTEN and COMMAND_RECORDING share, after the test of
\* vosk_output: on speech the chunk is fed and the partial result replaces
\* vosk_output, with vosk_nochange = 1 when its length is the old length;
\* then the timeout rule.  vosk_nochange is 0 again when the iteration ends.
ListenIteration(cap, rms, partial) ==
  LET nochange == /\ Talking(rms)
                  /\ partial # <<>>
                  /\ partial = listen.vosk_output
      r == TimeoutStep(listen.commandTimeout, Quiet(rms) \/ nochange)
      l == Observed(listen, cap, rms, Talking(rms), partial,
                    Talking(rms) \/ r.final, r.final)
  IN [l EXCEPT !.commandTimeout = r.ct,
               !.vosk_output = IF Talking(rms) THEN partial ELSE @]

\* WAKEWORD_LISTEN with the final result: NULL is logged; without a text the
\* goodbye loop compares a null pointer; else the goodbye test and the wake
\* phrase decide.
WakeFinal(l, out) ==
  LET text == getTextResponse(out) IN
  IF out.null THEN [l EXCEPT !.vosk_output = <<>>]
  ELSE IF text = <<>>
    THEN NullUse([l EXCEPT !.vosk_output = <<out.len>>], "strcmp")
  ELSE LET t == text[1]
           k == [l EXCEPT !.vosk_output = <<out.len>>,
                          !.quit = IsGoodbye(t)]
       IN IF t.wake
            THEN IF t.rest = ""
                   THEN [k EXCEPT !.commandTimeout = 0,
                                  !.silenceNextState = COMMAND_RECORDING,
                                  !.recState = SILENCE]
                   ELSE [k EXCEPT !.command_text = <<t.rest>>,
                                  !.recState = PROCESS_COMMAND]
            ELSE [k EXCEPT !.silenceNextState = WAKEWORD_LISTEN,
                           !.recState = SILENCE]

\* COMMAND_RECORDING with the final result: NULL is logged; else the text,
\* null or not, goes to strdup()
RecordFinal(l, out) ==
  LET text == getTextResponse(out) IN
  IF out.null THEN [l EXCEPT !.vosk_output = <<>>]
  ELSE IF text = <<>>
    THEN NullUse([l EXCEPT !.vosk_output = <<out.len>>], "strdup")
  ELSE [l EXCEPT !.vosk_output = <<out.len>>,
                 !.command_text = <<FullText(text[1])>>,
                 !.recState = PROCESS_COMMAND]

\* case WAKEWORD_LISTEN
L_WakeListen ==
  /\ Listening
  /\ listen.recState = WAKEWORD_LISTEN
  /\ \E cap \in Captures, level \in Levels, partial \in PartialResults :
       LET rms == calculateRMS(cap.bytes, level) IN
       IF Talking(rms) /\ listen.vosk_output = <<>>
         THEN listen' = NullUse(Observed(listen, cap, rms, FALSE, <<>>,
                                         FALSE, FALSE), "strlen")
         ELSE LET l == ListenIteration(cap, rms, partial) IN
              IF l.final
                THEN \E out \in AsrFinals : listen' = WakeFinal(l, out)
                ELSE listen' = l
  /\ UNCHANGED sysVars
  /\ UNCHANGED <<wake, repl, table, boot, pub>>

\* case COMMAND_RECORDING
L_Record ==
  /\ Listening
  /\ listen.recState = COMMAND_RECORDING
  /\ \E cap \in Captures, level \in Levels, partial \in PartialResults :
       LET rms == calculateRMS(cap.bytes, level) IN
       IF Talking(rms) /\ listen.vosk_output = <<>>
         THEN listen' = NullUse(Observed(listen, cap, rms, FALSE, <<>>,
                                         FALSE, FALSE), "strlen")
         ELSE LET l == ListenIteration(cap, rms, partial) IN
              IF l.final
                THEN \E out \in AsrFinals : listen' = RecordFinal(l, out)
                ELSE listen' = l
  /\ UNCHANGED sysVars
  /\ UNCHANGED <<wake, repl, table, boot, pub>>

\* case PROCESS_COMMAND, as far as the listening states see it: the command
\* text is used up, a goodbye phrase sets quit, and SILENCE follows
L_Process ==
  /\ Listening
  /\ listen.recState = PROCESS_COMMAND
  /\ listen' = [listen EXCEPT
                  !.quit = QuitAfter(@, listen.command_text[1]),
                  !.command_text = <<>>,
                  !.silenceNextState = WAKEWORD_LISTEN,
                  !.recState = SILENCE]
  /\ UNCHANGED sysVars
  /\ UNCHANGED <<wake, repl, table, boot, pub>>

ListenNext == L_Silence \/ L_WakeListen \/ L_Record \/ L_Process

\* The listening states alone.
ListenSpec == Init /\ [][ListenNext]_vars

TypeOK ==
  /\ tts_playback_state \in {TTS_PLAYBACK_IDLE, TTS_PLAYBACK_PLAY,
                             TTS_PLAYBACK_PAUSE, TTS_PLAYBACK_DISCARD}
  /\ tts_queue \in Seq(Texts)
  /\ tts_mutex \in {"none", "tts"}
  /\ pending \in Seq(Texts)
  /\ tts_queue_mutex \in {"none"} \cup Threads
  /\ commandTimeout \in 0..DEFAULT_COMMAND_TIMEOUT
  /\ vision_ai_image \in {NULL} \cup Buffers

\* ---- properties ----------------------------------------------------------

\* The request the worker has dequeued and not finished, as a sequence.
InFlight == IF inputText = NoRequest THEN <<>> ELSE <<inputText>>

\* The threads that are reading or modifying tts_queue step by step.
QueueAccessors ==
  {t \in Callers : pc[t] = "tts_push"} \cup (IF Draining THEN {"tts"} ELSE {})

\* The steps of the bus thread that are not the arrival of a message.
BusRunning ==
  \/ B_VisionFree \/ B_VisionNull \/ B_VisionMalloc \/ B_VisionCopy
  \/ text_to_speech_lock("bus") \/ text_to_speech_push("bus")

\* A step of a thread of the program, without inputs from outside.
ProgramStep == Main \/ Worker \/ BusRunning

\* C1: once the state is Discard it is replaced only by the worker's discard
\* branch, which drains the queue; no other write replaces a Discard that
\* was set with requests in the queue and leaves them there.
C1_DiscardReachesDrain ==
  [][(tts_playback_state = TTS_PLAYBACK_DISCARD
        /\ tts_playback_state' # TTS_PLAYBACK_DISCARD)
       => (pc'["tts"] = "w_drain" \/ discardBacklog = 0)]_vars

\* C2: outside the discard branch the request in flight followed by the
\* queue is exactly the sequence of requests enqueued and not yet played, in
\* enqueue order: requests are dequeued and played first in, first out, each
\* once, equal strings included.
C2_FifoOrder == ~InDiscardBranch => pending = InFlight \o tts_queue

\* The worker finishes a request while two different requests wait.
C2_Witness ==
  /\ pc["tts"] = "w_cb_idle"
  /\ Len(tts_queue) = 2
  /\ tts_queue[1] # tts_queue[2]
  /\ pending = <<inputText>> \o tts_queue

\* C3: a pre-chunk check that reads Discard sets Idle and enters the drain;
\* the discard branch writes no chunk; the queue is empty when the branch
\* releases tts_mutex.
C3_DiscardBranchDrains ==
  [][/\ (pc["tts"] = "w_chk" /\ pc'["tts"] # "w_chk"
           /\ tts_playback_state = TTS_PLAYBACK_DISCARD)
          => (tts_playback_state' = TTS_PLAYBACK_IDLE /\ pc'["tts"] = "w_drain")
     /\ (InDiscardBranch \/ tts_playback_state = TTS_PLAYBACK_DISCARD)
          => chunk_i' <= chunk_i
     /\ (pc["tts"] = "w_drain_unlock" /\ pc'["tts"] # "w_drain_unlock")
          => tts_queue = <<>>]_vars

\* C4: never two threads in the queue at once: an enqueuer between its lock
\* and unlock of tts_queue_mutex excludes the worker's drain, and two
\* enqueuers exclude each other.
C4_QueueAccessExclusive == Cardinality(QueueAccessors) <= 1

\* C5: once quit is set the program runs on to the end of cleanup: until main
\* has finished, some thread of the program can take a step.
C5_QuitTerminates == quit => (pc["main"] = "done" \/ ENABLED ProgramStep)

\* C6: a goodbye phrase enqueues "Goodbye sir." and sets quit, and the
\* request has been played when the worker has ended (here in runs whose
\* only input from outside is the goodbye phrase).
C6_GoodbyePlayed ==
  /\ (goodbye # "none" /\ pc["main"] # "ww_quit") => quit
  /\ (pc["tts"] = "w_done" /\ goodbye # "none" /\ inputs = 1)
       => goodbye = "played"

\* C7: the worker starts to wait on tts_queue_cond only with the queue empty
\* and running true, and it never ends while requests remain in the queue.
C7_WorkerWaitAndExit ==
  [][/\ (pc'["tts"] = "w_qwait" /\ pc["tts"] # "w_qwait")
          => (tts_queue = <<>> /\ tts_thread_running)
     /\ (pc'["tts"] = "w_done" /\ pc["tts"] # "w_done")
          => tts_queue = <<>>]_vars

\* C8: a chunk is written only by the step of the pre-chunk check that took
\* tts_mutex and read PLAY or IDLE; a check that reads PAUSE waits on
\* tts_cond, and nothing is written while the worker waits there.
C8_WriteAfterCheck ==
  [][/\ chunk_i' > chunk_i
          => /\ pc["tts"] = "w_chk"
             /\ tts_mutex = "none"
             /\ tts_playback_state \in {TTS_PLAYBACK_PLAY, TTS_PLAYBACK_IDLE}
     /\ (pc["tts"] = "w_chk" /\ tts_playback_state = TTS_PLAYBACK_PAUSE)
          => (pc'["tts"] \in {"w_chk", "w_pausewait"} /\ chunk_i' = chunk_i)
     /\ pc["tts"] = "w_pausewait"
          => (pc'["tts"] \in {"w_pausewait", "w_chk"} /\ chunk_i' = chunk_i)]_vars

\* The worker waits on tts_cond, paused after it has written a chunk.
C8_Witness ==
  /\ pc["tts"] = "w_pausewait"
  /\ tts_playback_state = TTS_PLAYBACK_PAUSE
  /\ chunk_i >= 1
  /\ chunk_i < audioChunks

\* C9: a cancel phrase heard with the TTS paused sets Discard, goes back to
\* SILENCE with next state WAKEWORD_LISTEN and publishes no command; the
\* requests that were in the queue then are emptied by the worker: that
\* Discard is replaced only by the worker's drain of the queue.
C9_CancelDiscards ==
  [][/\ (pc["main"] = "ww_cancel" /\ pc'["main"] # "ww_cancel"
           /\ tts_playback_state = TTS_PLAYBACK_PAUSE /\ IsCancel(input_text))
          => /\ tts_playback_state' = TTS_PLAYBACK_DISCARD
             /\ recState' = SILENCE
             /\ silenceNextState' = WAKEWORD_LISTEN
             /\ bus_out' = "none"
     /\ (cancelPending /\ ~cancelPending')
          => (pc'["tts"] = "w_drain" \/ discardBacklog = 0)]_vars

\* C10: while getGptResponse() reads the image it was given, that buffer is
\* allocated and completely written; and no buffer is freed twice.
C10_VisionSlotNotShared ==
  /\ (pc["main"] = "vis_read" /\ llm_image # NULL)
       => (heap[llm_image].st = "alloc" /\ heap[llm_image].img # 0)
  /\ ~doubleFree

\* The positions of the case blocks, where the loop top hands over.
StatePcs == {"sil", "ww", "cr", "pc_match", "vis"}

\* The positions from which main() comes to the top of its loop.
LoopEnds == {"loop", "sil", "ww", "cr", "ww_wake", "ww_hello", "pc_end"}

\* C11: an image stored completely and not sent so far
\* is the image a VisionReady turn hands to the LLM; and when a VisionReady
\* turn ends, such an image is still in the slot with the ready flag set, so
\* that the following turn sends it.
C11_NewestImageSent ==
  [][/\ (pc["main"] = "vis" /\ pc'["main"] = "vis_read"
           /\ pc["bus"] = "b_idle" /\ delivered > 0)
          => delivered' = 0
     /\ (pc["main"] = "vis_reset" /\ pc'["main"] # "vis_reset"
           /\ pc["bus"] = "b_idle" /\ delivered > 0)
          => /\ vision_ai_ready'
             /\ vision_ai_image' # NULL
             /\ heap'[vision_ai_image'].img = delivered']_vars

\* C12: an iteration that begins with the ready flag set handles
\* VISION_AI_READY whatever the listening state was, and the VisionReady turn
\* ends with the slot empty, the flag cleared, the state SILENCE and the next
\* state WAKEWORD_LISTEN.
C12_VisionPreempts ==
  [][/\ (vision_ai_ready /\ pc["main"] \in LoopEnds /\ pc'["main"] \in StatePcs
           /\ pc'["main"] # pc["main"])
          => (pc'["main"] = "vis" /\ recState' = VISION_AI_READY)
     /\ (pc["main"] = "vis_reset" /\ pc'["main"] # "vis_reset")
          => /\ vision_ai_image' = NULL
             /\ vision_ai_image_size' = 0
             /\ ~vision_ai_ready'
             /\ recState' = SILENCE
             /\ silenceNextState' = WAKEWORD_LISTEN]_vars

\* C15: at most one music task is playing or starting to play at any time.
C15_OneMusicTask == Cardinality({t \in TaskIds : Playing(t)}) <= 1

\* C16: a task that ran when a "stop" was handled writes no further frame and
\* does not play on to the end of its stream.
C16_StopObserved ==
  [][\A t \in TaskIds :
       stopPending[t] => (written'[t] = written[t] /\ task'[t] # "eof")]_vars

\* C17: in a request whose probe failed with Cloud selected, the adapter has
\* announced the fallback and the switch, the selection is Local and the HTTP
\* request goes to the Local URL; in a request whose probe failed with Local
\* selected, no HTTP request is sent, getGptResponse() returns NULL and the
\* caller speaks the apology.
C17_ProbeFallback ==
  /\ (probeRes = "fail" /\ llmSel0 = CLOUDAI_URL)
       => /\ llm_url = LOCALAI_URL
          /\ Len(llm_tts) >= 2
          /\ llm_tts[1] = "Unable to contact cloud LLM."
          /\ llm_tts[2] = "Setting to AI to local LLM."
          /\ llmPc = "http" \/ httpUrl = LOCALAI_URL
  /\ (probeRes = "fail" /\ llmSel0 = LOCALAI_URL)
       => /\ httpUrl = NoValue
          /\ llmRet = "NULL"
          /\ llm_url = LOCALAI_URL
          /\ llmPc = "idle" => llm_tts = <<ApologyText>>

\* A request that fell back from Cloud has got its reply from Local.
C17_Witness ==
  /\ llmPc = "idle"
  /\ probeRes = "fail"
  /\ llmSel0 = CLOUDAI_URL
  /\ httpUrl = LOCALAI_URL
  /\ llmRet = "reply"
  /\ Len(llm_tts) = 3

\* C13: a hud message is sent only with a state that differs from
\* currentState, so it differs from the message before it, and currentState
\* becomes the state sent; currentState changes in no other step.
C13_HudDebounced ==
  [][/\ hud' # hud
          => /\ hud'[Len(hud')] # currentState
             /\ hud # <<>> => hud'[Len(hud')] # hud[Len(hud)]
             /\ currentState' = hud'[Len(hud')]
     /\ currentState' # currentState => hud' # hud]_vars

\* A publish of WAKEWORD_LISTEN has failed: the iteration runs with the last
\* published state still SILENCE.
C13_Witness ==
  /\ pc["main"] = "ww"
  /\ recState = WAKEWORD_LISTEN
  /\ currentState = SILENCE
  /\ hud = <<SILENCE>>

\* C14: when the only input from outside is one utterance of a wake phrase
\* followed by a command of the table, the hud messages of the turn are, at
\* its end, exactly SILENCE, WAKEWORD_LISTEN, PROCESS_COMMAND, SILENCE: the
\* messages since the last SILENCE message are the first three, and the step
\* that ends the turn sends SILENCE.
C14_HudSequence ==
  [][(pc["main"] = "pc_end" /\ pc'["main"] # "pc_end" /\ bus_out # "none"
        /\ inputs' = 1)
       => /\ hud = <<SILENCE, WAKEWORD_LISTEN, PROCESS_COMMAND>>
          /\ hud' = <<SILENCE>>]_vars

\* The turn of a wake phrase with a command of the table has published the
\* command and is at its last step.
C14_Witness ==
  /\ pc["main"] = "pc_end"
  /\ inputs = 1
  /\ bus_out \in commandTexts
  /\ currentState = PROCESS_COMMAND
  /\ hud = <<SILENCE, WAKEWORD_LISTEN, PROCESS_COMMAND>>

\* C18: a message whose device field is one of the twelve device strings, and
\* that has an action field, makes the router invoke exactly one callback, the
\* one registered for that device, once, with the message's action and value;
\* a message with an unknown device, or without device or action, invokes none.
C18_RouterDispatch ==
  routerMsgs > 0 =>
    IF rMsg.json /\ rMsg.action # NoField
       /\ rMsg.device \in {deviceTypeStrings[k] : k \in DOMAIN deviceTypeStrings}
    THEN /\ Len(rCalls) = 1
         /\ \E k \in DOMAIN deviceCallbackArray :
              /\ deviceTypeStrings[deviceCallbackArray[k].device + 1] = rMsg.device
              /\ rCalls[1] = [callback |-> deviceCallbackArray[k].callback,
                              actionName |-> rMsg.action, value |-> rMsg.value]
    ELSE rCalls = <<>>

\* C19: when a chunk write to the playback sink has failed, the worker drops
\* the request it is playing: it writes no further chunk of that request.
C19_FailedWriteDrops ==
  [][writeFailed => chunk_i' <= chunk_i]_vars

\* C20: a reply of the LLM handed to text_to_speech(), in PROCESS_COMMAND and
\* in VISION_AI_READY alike, contains no <end_of_turn> marker, no '*' and no
\* emoji codepoint.
C20_ReplySanitised ==
  textPc = "tts" =>
    /\ strstr(response_text, END_OF_TURN) = 0
    /\ \A k \in DOMAIN response_text : response_text[k] # Star[1]
    /\ \A cp \in CodepointsFrom(response_text, 1) : ~is_emoji(cp)

\* C21: getGptResponse() does not modify its inputs: from the call to the
\* return, with a reply or with NULL, the conversation history holds exactly
\* the messages it held before the call (only the caller, after the return,
\* appends to it).
C21_HistoryUntouched ==
  [][llmPc # "returned" => conversation_history' = conversation_history]_vars

\* the occurrences of a wake phrase in a text that a space and further text
\* follow: the phrase and the text after the space
WakeCommands(text) ==
  { [w |-> i, rest |-> SubSeq(text, p + Len(wakeWords[i]) + 1, Len(text))] :
      <<i, p>> \in { ip \in (DOMAIN wakeWords) \X (1..Len(text)) :
                       /\ ip[2] + Len(wakeWords[ip[1]]) + 1 <= Len(text)
                       /\ SubSeq(text, ip[2], ip[2] + Len(wakeWords[ip[1]]))
                            = wakeWords[ip[1]] \o <<" ">> } }

\* C22: a final transcript that contains a wake phrase followed by a space and
\* further text takes the wake branch into ProcessCommand, and the command
\* text is the text after the wake phrase and its one separating space.
C22_WakeRemainder ==
  (wake.n > 0 /\ WakeCommands(wake.text) # {}) =>
    /\ wake.branch = "process"
    /\ \E c \in WakeCommands(wake.text) : wake.command_text = c.rest

\* C25: replaceWithValues() substitutes only the placeholders it recognises;
\* every other %name% of the template is copied to the output unchanged, the
\* percent signs included (checked on the templates without %datetime%).
C25_UnknownLiteral ==
  (repl.n > 0 /\ \A k \in DOMAIN repl.pieces :
                    repl.pieces[k] # Placeholder(<<"d", "a", "t", "e", "t", "i", "m", "e">>))
    => repl.out =
         Flatten([k \in DOMAIN repl.pieces |->
                    IF repl.pieces[k] = Placeholder(DeviceNameKey) THEN ReplDevice
                    ELSE IF repl.pieces[k] = Placeholder(ValueKey) THEN repl.value
                    ELSE repl.pieces[k]])

RECURSIVE SumSeq(_)
SumSeq(ns) == IF ns = <<>> THEN 0 ELSE Head(ns) + SumSeq(Tail(ns))

\* the sum, over the action types, their sub-actions, the words of these
\* and the devices of the type, of one plus the number of aliases
ExpectedCommands(actions) ==
  SumSeq([i \in 1..Len(actions) |->
    SumSeq([j \in 1..Len(actions[i].subActions) |->
      SumSeq([k \in 1..Len(actions[i].subActions[j].actionWords) |->
        SumSeq([m \in 1..Len(actions[i].devices) |->
          1 + Len(actions[i].devices[m].aliases)])])])])

\* actions[] as parseCommandConfig() left it
ParsedActions == SubSeq(Actions(table.shape), 1, table.numActions)

\* where the element of word k of sub-action j of type i for device m is
\* expected: alias n of the device, the device itself for n = 0
ExpectedIndex(shape, i, j, k, m, n) ==
  ((((i - 1) * shape.subActions + (j - 1)) * shape.actionWords + (k - 1))
      * shape.devices + (m - 1)) * (1 + shape.aliases) + n + 1

\* C26: when the configuration compiles to fewer than MAX_COMMANDS commands,
\* their number is the sum over action types, sub-actions, words and devices
\* of one plus the number of aliases of the device, and they stand in that
\* nesting order, the name of a device before its aliases.
C26_CompiledCount ==
  (table.phase \notin {"config", "parse"}
     /\ ExpectedCommands(ParsedActions) < MAX_COMMANDS) =>
    /\ Len(table.commands) = ExpectedCommands(ParsedActions)
    /\ \A i \in 1..table.numActions, j \in 1..table.shape.subActions,
          k \in 1..table.shape.actionWords, m \in 1..table.shape.devices,
          n \in 0..table.shape.aliases :
         LET c == table.commands[ExpectedIndex(table.shape, i, j, k, m, n)]
             spoken == IF n = 0 THEN DeviceName(i, m) ELSE DeviceAlias(i, m, n)
         IN /\ c.actionWordsWildcard = replaceWithValues(ActionWord(j, k), spoken, <<"*">>)
            /\ c.actionCommand = replaceWithValues(ActionCommand(j), DeviceName(i, m), <<"%", "s">>)
            /\ c.topic = DeviceTopic(i, m)

C26_Witness ==
  /\ table.phase = "capture"
  /\ table.shape \in SmallShapes
  /\ table.numActions = 2 /\ table.shape.subActions = 2
  /\ table.shape.actionWords = 2 /\ table.shape.devices = 2
  /\ table.shape.aliases = 2
  /\ Len(table.commands) = 48

\* C23: a command text made of a word "... %device_name% to %value%" with an
\* alias of a device and a value stops the loop at the element compiled for
\* that alias, and one message goes to the topic of the device: the command
\* of the sub-action with the name of the device, not the alias, and the
\* spoken value.
C23_AliasRoundTrip ==
  \A i \in 1..MaxCount, j \in 1..MaxCount, m \in 1..MaxCount, n \in 1..MaxCount,
     v \in SpokenValues :
    (/\ pub.matched
     /\ i <= table.numActions /\ j <= table.shape.subActions
     /\ 1 <= table.shape.actionWords
     /\ m <= table.shape.devices /\ n <= table.shape.aliases
     /\ pub.text = replaceWithValues(ActionWord(j, 1), DeviceAlias(i, m, n), v))
    => /\ pub.index = ExpectedIndex(table.shape, i, j, 1, m, n)
       /\ pub.msgs = <<[topic |-> DeviceTopic(i, m),
                        payload |-> <<"c", Digits[j], " ">> \o DeviceName(i, m)
                                      \o <<"=">> \o v]>>

C23_Witness ==
  /\ pub.matched
  /\ table.shape.aliases >= 1
  /\ pub.text = <<"s", "1", " ", "a", "1", "1", "1", " ", "t", "o", " ", "7">>
  /\ pub.msgs = <<[topic |-> <<"t", "1", "1">>,
                   payload |-> <<"c", "1", " ", "d", "1", "1", "=", "7">>]>>

\* the elements of commands[] whose pattern, with the '*' appended, matches
\* the whole of the text matched last
MatchingEntries ==
  {i \in 1..Len(table.commands) :
     FnMatchFrom(table.commands[i].actionWordsWildcard \o <<"*">>, 1, pub.text, 1)}

\* C30: for a command text at most one message is published, the one of the
\* matching element of the lowest index, on the topic of that element;
\* matching leaves commands[] as it is, and matching the same text again
\* gives the same element, topic and payload.
C30_FirstMatchWins ==
  /\ [](pub.matched =>
          /\ Len(pub.msgs) <= 1
          /\ MatchingEntries = {} => pub.msgs = <<>> /\ pub.index = 0
          /\ MatchingEntries # {} =>
               /\ pub.index \in MatchingEntries
               /\ \A h \in MatchingEntries : pub.index <= h
               /\ Len(pub.msgs) = 1
               /\ pub.msgs[1].topic = table.commands[pub.index].topic)
  /\ [][table.phase = "listening" => table' = table]_vars
  /\ [][(pub.matched /\ pub'.text = pub.text) => pub' = pub]_vars

C30_Witness ==
  /\ pub.matched
  /\ Cardinality(MatchingEntries) >= 2
  /\ pub.index < table.shape.devices * (1 + table.shape.aliases) * table.shape.actionWords
  /\ Len(pub.msgs) = 1

\* C24: a configuration that compiles to more commands than commands[]
\* holds is fatal: the listening loop is never entered.
C24_OverflowFatal ==
  ExpectedCommands(ParsedActions) > MAX_COMMANDS => table.phase # "listening"

\* C27: when a step of startup has failed (the configuration file, a
\* required field of it, the capture or the playback device, the bus
\* connection or the subscription, granted or not), the listening loop is
\* not entered.
C27_StartupFailureExits ==
  boot.failed # {} => table.phase # "listening"

\* C29: PROCESS_COMMAND takes one route.  A text of the table is published
\* and goes to the end of the case; a text of the ignore list publishes
\* nothing, asks nothing and resumes a paused TTS; any other text goes to
\* getGptResponse() once, whose reply or apology is spoken, and publishes
\* nothing.  The case ends with SILENCE as the state (VISION_AI_READY when
\* the top of the loop finds an image ready), WAKEWORD_LISTEN as the state
\* after it, and quit set when the text is a goodbye word.
C29_OneRoute ==
  [][/\ (pc["main"] = "pc_match" /\ pc'["main"] # "pc_match") =>
          IF command_text \in commandTexts
            THEN bus_out' = command_text /\ pc'["main"] = "pc_end"
          ELSE IF command_text \in ignoreWords
            THEN /\ bus_out' = bus_out /\ pc'["main"] = "pc_end"
                 /\ pending' = pending
                 /\ tts_playback_state = TTS_PLAYBACK_PAUSE
                      => tts_playback_state' = TTS_PLAYBACK_PLAY
          ELSE bus_out' = bus_out /\ pc'["main"] = "pc_llm"
     /\ (pc'["main"] = "pc_llm" /\ pc["main"] # "pc_llm") => pc["main"] = "pc_match"
     /\ (pc["main"] = "pc_llm" /\ pc'["main"] # "pc_llm") =>
          /\ ttsRet'["main"] = "pc_end"
          /\ ttsArg'["main"] \in {"reply", "apology"}
          /\ bus_out' = bus_out
     /\ (pc["main"] = "pc_end" /\ pc'["main"] # "pc_end") =>
          /\ (bus_out # "none") = (command_text \in commandTexts)
          /\ silenceNextState' = WAKEWORD_LISTEN
          /\ quit' = (quit \/ command_text \in goodbyeWords)
          /\ recState' \in {SILENCE} \cup
                (IF vision_ai_ready /\ ~quit' THEN {VISION_AI_READY} ELSE {})
    ]_vars

C29_Witness ==
  /\ pc["main"] = "pc_end"
  /\ command_text \in goodbyeWords
  /\ bus_out = "none"
  /\ ~quit
  /\ \E k \in DOMAIN pending : pending[k] \in {"reply", "apology"}

\* C28: the drain of the Discard branch removes only requests that were in
\* the queue when Discard was set: when the worker enters the branch the
\* queue holds no request enqueued after that.
C28_LateRequestKept ==
  [][(pc'["tts"] = "w_drain" /\ pc["tts"] # "w_drain")
       => Len(tts_queue) <= discardBacklog]_vars

C37_RecordingNeverPaused ==
  /\ [](pc["main"] = "cr" => tts_playback_state # TTS_PLAYBACK_PAUSE)
  /\ [][(tts_playback_state' = TTS_PLAYBACK_PAUSE
           /\ tts_playback_state # TTS_PLAYBACK_PAUSE)
          => pc["main"] = "ww"]_vars

\* A COMMAND_RECORDING iteration begins while the worker plays a request.
C37_Witness ==
  /\ pc["main"] = "cr"
  /\ recState = COMMAND_RECORDING
  /\ tts_playback_state = TTS_PLAYBACK_PLAY
  /\ pc["tts"] = "w_chk"

\* C40: while the worker waits on tts_queue_cond for a request the playback
\* state is IDLE.
C40_IdleWhileWaiting ==
  pc["tts"] = "w_qwait" => tts_playback_state = TTS_PLAYBACK_IDLE

\* The worker waits for a request while main has run a WAKEWORD_LISTEN
\* iteration and begins the next.
C40_Witness ==
  /\ pc["tts"] = "w_qwait"
  /\ pc["main"] = "ww"
  /\ commandTimeout = 1
  /\ tts_playback_state = TTS_PLAYBACK_IDLE

\* C35: a command text handed to PROCESS_COMMAND is dispatched before main
\* listens again: no SILENCE, WAKEWORD_LISTEN or COMMAND_RECORDING iteration
\* begins with a command text still waiting.
C35_CommandDispatched ==
  pc["main"] \in {"sil", "ww", "cr"} => command_text = ""

\* C36: an image the bus thread has stored completely and that no
\* VisionReady turn has sent is in the slot with the ready flag set,
\* whatever main did with an earlier image meanwhile.
C36_LateImageKept ==
  (delivered > 0 /\ pc["bus"] = "b_idle")
    => /\ vision_ai_ready
       /\ vision_ai_image # NULL
       /\ heap[vision_ai_image].st = "alloc"
       /\ heap[vision_ai_image].img = delivered

\* C38: when getGptResponse() is entered and probes the selected URL,
\* llm_url is the Cloud URL or the Local URL.
C38_UrlSelected ==
  llmPc = "probe" => llm_url \in {CLOUDAI_URL, LOCALAI_URL}

\* C34: a final transcript of WAKEWORD_LISTEN that ends with the wake phrase
\* has "Hello sir." spoken and then the state SILENCE (or a VisionReady
\* turn first) with next state COMMAND_RECORDING; that next state stays
\* until a command has been processed, so the iteration that then detects
\* speech is followed by COMMAND_RECORDING; and the final transcript of
\* COMMAND_RECORDING is the command text with which PROCESS_COMMAND begins
\* (all while quit is not set).
C34_HelloThenRecord ==
  [][/\ (pc["main"] = "ww_wake" /\ pc'["main"] # "ww_wake"
           /\ input_text.wake /\ input_text.rest = "")
          => (ttsArg'["main"] = "Hello sir." /\ ttsRet'["main"] = "ww_hello")
     /\ (pc["main"] = "ww_hello" /\ pc'["main"] # "ww_hello" /\ ~quit)
          => /\ recState' \in {SILENCE, VISION_AI_READY}
             /\ silenceNextState' = COMMAND_RECORDING
     /\ (silenceNextState = COMMAND_RECORDING
           /\ silenceNextState' # COMMAND_RECORDING)
          => pc["main"] = "pc_end"
     /\ (pc["main"] = "sil" /\ pc'["main"] # "sil" /\ ~quit
           /\ silenceNextState = COMMAND_RECORDING)
          => pc'["main"] \in {"cr", "vis"}
     /\ (pc["main"] = "cr" /\ command_text' # command_text /\ ~quit)
          => pc'["main"] \in {"pc_match", "vis"}]_vars

\* C31: in WAKEWORD_LISTEN and COMMAND_RECORDING a chunk with rms at or
\* above the threshold is fed to the recogniser and the partial result is
\* read; the iteration is silent when the rms is below the threshold or the
\* partial result has the length of the output before it; commandTimeout is
\* the number of silent iterations in a row, the final result is requested in
\* the iteration that makes it DEFAULT_COMMAND_TIMEOUT, and it is 0 after
\* that iteration and after one that is not silent.
C31_SilentIterationsCounted ==
  /\ [](listen.commandTimeout < DEFAULT_COMMAND_TIMEOUT)
  /\ [][(listen.recState \in {WAKEWORD_LISTEN, COMMAND_RECORDING}
           /\ listen'.nullUse = "none")
          => LET unchanged == /\ listen'.asked
                              /\ listen'.partial # <<>>
                              /\ listen'.partial = listen.vosk_output
                 silent == listen'.rms = "below" \/ unchanged
                 n == listen.commandTimeout + 1
             IN /\ listen'.rms \in {"at", "above"} => listen'.asked
                /\ listen'.rms = "below" => ~listen'.asked
                /\ listen'.final = (silent /\ n = DEFAULT_COMMAND_TIMEOUT)
                /\ listen'.commandTimeout =
                     IF silent /\ n < DEFAULT_COMMAND_TIMEOUT THEN n ELSE 0]_vars

\* The final result was requested in an iteration whose rms was exactly the
\* threshold and whose partial result had not grown.
C31_Witness ==
  /\ listen.final
  /\ listen.rms = "at"
  /\ listen.asked
  /\ listen.partial # <<>>
  /\ listen.commandTimeout = 0
  /\ listen.nullUse = "none"

\* C32: an iteration whose capture failed feeds nothing to the recogniser
\* and leaves commandTimeout and the listening state as they were.
C32_FailedCaptureDropped ==
  [][(listen.recState \in {SILENCE, WAKEWORD_LISTEN, COMMAND_RECORDING}
       /\ listen'.rc # 0)
      => /\ ~listen'.fed
         /\ listen'.commandTimeout = listen.commandTimeout
         /\ listen'.recState = listen.recState]_vars

\* C39: no step takes the length of a null ASR output or compares or copies
\* a null transcript.
C39_NoNullTranscriptUse == listen.nullUse = "none"
====
